---- MODULE Spec2Model ----
(***************************************************************************)
(* Model of the gnews content studio: the reader's extraction pipeline     *)
(* (ReaderModal.fetchContent over parseArticleContent and                  *)
(* fetchWordpressArticle), the transformation call (rewriteArticleContent) *)
(* and the listing helpers (fetchTopics, fetchNewsArticles,                *)
(* fetchDiscoverArticles).                                                 *)
(*                                                                         *)
(* JavaScript values that may be absent or of several types are tagged     *)
(* records: [t |-> "undefined"], [t |-> "null"], [t |-> "string", s |-> _],*)
(* [t |-> "html", h |-> _] (a string holding markup, kept as a sequence of *)
(* markup tokens), [t |-> "array", a |-> _], and objects (t = "object").   *)
(* A promise's outcome is Resolve(v) or Reject(message).                   *)
(***************************************************************************)
EXTENDS Integers, Sequences, FiniteSets, TLC

VARIABLES
    article,            \* ReaderModal prop `article` (Null when the modal is not rendered)
    initialParsedData,  \* ReaderModal prop `initialParsedData`
    parsedData,         \* ReaderModal state
    loading,            \* ReaderModal state
    loadingStep,        \* ReaderModal state
    error,              \* ReaderModal state
    inv,                \* the fetchContent invocations started so far
    call,               \* a call of a service function made outside the reader
    app,                \* App state: session, articles, topics, selection, loading
    loads,              \* the initTopics and loadNews invocations App has started
    mockTopics,         \* the object the module constant MOCK_TOPICS is bound to
    mockArticles,       \* the object the module constant MOCK_ARTICLES is bound to
    imp,                \* App's reading and import state and its handleImportSubmit runs
    studio,             \* props and state of the ReaderModal with the rewrite panel
    extractions,        \* the parseArticleContent promises that modal has started
    rewrites,           \* the handleRewrite invocations started so far
    alerts              \* the alert() calls made so far

vars == <<article, initialParsedData, parsedData, loading, loadingStep, error, inv, call,
          app, loads, mockTopics, mockArticles, imp, studio, extractions, rewrites, alerts>>

readerVars == <<article, initialParsedData, parsedData, loading, loadingStep, error, inv>>

appVars == <<app, loads, mockTopics, mockArticles, imp>>

studioVars == <<studio, extractions, rewrites, alerts>>

----------------------------------------------------------------------------
(* Bounds *)

\* effect runs (fetchContent invocations and pre-parsed opens) per behaviour
MaxOpens == 2

----------------------------------------------------------------------------
(* JavaScript values *)

JsUndef == [t |-> "undefined"]
JsNull == [t |-> "null"]
JsStr(s) == [t |-> "string", s |-> s]
JsHtml(h) == [t |-> "html", h |-> h]
JsArr(a) == [t |-> "array", a |-> a]
JsBool(b) == [t |-> "boolean", b |-> b]
JsNum(n) == [t |-> "number", n |-> n]

Null == JsNull

\* JavaScript truthiness of a tagged value
Truthy(x) ==
    CASE x.t = "undefined" -> FALSE
      [] x.t = "null" -> FALSE
      [] x.t = "string" -> x.s # ""
      [] x.t = "html" -> x.h # <<>>
      [] OTHER -> TRUE

\* a || b
Or(a, b) == IF Truthy(a) THEN a ELSE b

Resolve(v) == [ok |-> TRUE, value |-> v]
Reject(m) == [ok |-> FALSE, message |-> m]

\* new Error(m).message || d   (the message of a caught error, else a default)
MessageOr(m, d) == IF m # "" THEN m ELSE d

----------------------------------------------------------------------------
(* Markup: a string of HTML is a sequence of tokens.  A token has the      *)
(* number of characters of its markup (len) and of the text left once its  *)
(* tags are stripped (inner).                                              *)

Text(n) == [kind |-> "text", len |-> n, inner |-> n]
Para(n) == [kind |-> "p", len |-> n + 7, inner |-> n]
Iframe(quote, host, oneLine) ==
    [kind |-> "iframe", len |-> 40, inner |-> 0, quote |-> quote, host |-> host, oneLine |-> oneLine]
Figure(class, oneLine) ==
    [kind |-> "figure", len |-> 60, inner |-> 0, class |-> class, oneLine |-> oneLine]

RECURSIVE HtmlLength(_)
\* String.prototype.length of a markup string
HtmlLength(h) == IF h = <<>> THEN 0 ELSE Head(h).len + HtmlLength(Tail(h))

RECURSIVE StripTags(_)
\* s.replace(/<[^>]+>/g, ''): the tags go, the text between them stays
StripTags(h) ==
    IF h = <<>> THEN <<>>
    ELSE (IF Head(h).inner > 0 THEN <<Text(Head(h).inner)>> ELSE <<>>) \o StripTags(Tail(h))

\* hosts whose text contains "youtube.com" or "youtu.be"
YoutubeHosts == {"www.youtube.com", "youtu.be"}

\* /<iframe[^>]*src="[^"]*(youtube\.com|youtu\.be)[^"]*"[^>]*>.*?<\/iframe>/g
MatchesIframeRegex(tok) ==
    /\ tok.kind = "iframe"
    /\ tok.quote = "double"
    /\ tok.host \in YoutubeHosts
    /\ tok.oneLine

\* /<figure[^>]*class="wp-block-embed-youtube"[^>]*>.*?<\/figure>/g
MatchesFigureRegex(tok) ==
    /\ tok.kind = "figure"
    /\ tok.class = "wp-block-embed-youtube"
    /\ tok.oneLine

KeepAfterIframeRegex(tok) == ~MatchesIframeRegex(tok)
KeepAfterFigureRegex(tok) == ~MatchesFigureRegex(tok)

\* the two content.replace calls of fetchWordpressArticle
CleanContent(h) == SelectSeq(SelectSeq(h, KeepAfterIframeRegex), KeepAfterFigureRegex)

----------------------------------------------------------------------------
(* URLs.  new URL(u) either throws or gives protocol, hostname and         *)
(* pathname; a pathname is kept as its sequence of characters.             *)

UrlPost == "https://blog.example/n/p/"
UrlRoot == "https://site.example"
UrlBad == "not a url"
UrlEmpty == ""
UrlPlain == "http://news.example/a/b"
UrlDoubleSlash == "https://blog.example/n/p//"

Urls == {UrlPost, UrlRoot, UrlBad, UrlEmpty, UrlPlain, UrlDoubleSlash}

\* new URL(u): valid = FALSE stands for the TypeError it throws
ParseUrl(u) ==
    CASE u = UrlPost -> [valid |-> TRUE, protocol |-> "https:", hostname |-> "blog.example",
                         pathname |-> <<"/", "n", "/", "p", "/">>]
      [] u = UrlRoot -> [valid |-> TRUE, protocol |-> "https:", hostname |-> "site.example",
                         pathname |-> <<"/">>]
      [] u = UrlPlain -> [valid |-> TRUE, protocol |-> "http:", hostname |-> "news.example",
                          pathname |-> <<"/", "a", "/", "b">>]
      [] u = UrlDoubleSlash -> [valid |-> TRUE, protocol |-> "https:", hostname |-> "blog.example",
                                pathname |-> <<"/", "n", "/", "p", "/", "/">>]
      [] OTHER -> [valid |-> FALSE, protocol |-> "", hostname |-> "", pathname |-> <<>>]

RECURSIVE RemoveTrailingSlash_All(_)
RemoveTrailingSlash_All(p) ==
    IF p # <<>> /\ p[Len(p)] = "/" THEN RemoveTrailingSlash_All(SubSeq(p, 1, Len(p) - 1)) ELSE p

\* pathname.replace(/\/$/, "")
RemoveTrailingSlash(p) ==
    IF p # <<>> /\ p[Len(p)] = "/" THEN SubSeq(p, 1, Len(p) - 1) ELSE p

RECURSIVE LastSegment(_)
\* parts = pathname.split('/'); parts[parts.length - 1], as a string
LastSegment(p) ==
    IF p = <<>> THEN ""
    ELSE IF p[Len(p)] = "/" THEN ""
    ELSE LastSegment(SubSeq(p, 1, Len(p) - 1)) \o p[Len(p)]

Slug(u) == LastSegment(RemoveTrailingSlash(ParseUrl(u).pathname))

WpApiUrl(u) ==
    ParseUrl(u).protocol \o "//" \o ParseUrl(u).hostname
        \o "/wp-json/wp/v2/posts?slug=" \o Slug(u) \o "&_embed"

----------------------------------------------------------------------------
(* HTTP.  A response to fetch(): the call rejects (net = "fail", with the  *)
(* TypeError's message) or resolves with a status and a body that          *)
(* response.json() either parses (body is the JSON value) or rejects       *)
(* (body = Unparseable).                                                   *)

Unparseable == [t |-> "unparseable"]

NetFail(m) == [net |-> "fail", netMsg |-> m]
Http(status, statusText, body) ==
    [net |-> "ok", status |-> status, statusText |-> statusText, body |-> body]

\* response.ok
ResponseOk(r) == r.status \in {"200", "204"}

\* reading a property of null or undefined throws a TypeError
TypeErrorMessage == "Cannot read properties of null"

----------------------------------------------------------------------------
(* Extraction backend: GET <base>/read?url=...                             *)

\* an extraction payload with no field set
ReadObj ==
    [t |-> "object", status |-> JsUndef, message |-> JsUndef, data |-> JsUndef,
     title |-> JsUndef, content |-> JsUndef, textContent |-> JsUndef, excerpt |-> JsUndef,
     author |-> JsUndef, byline |-> JsUndef, siteName |-> JsUndef, url |-> JsUndef,
     image |-> JsUndef]

RECURSIVE JoinComma_NoSpace(_)
JoinComma_NoSpace(a) ==
    IF a = <<>> THEN ""
    ELSE IF Len(a) = 1 THEN a[1]
    ELSE a[1] \o "," \o JoinComma_NoSpace(Tail(a))

RECURSIVE JoinComma(_)
\* Array.prototype.join(', ')
JoinComma(a) ==
    IF a = <<>> THEN ""
    ELSE IF Len(a) = 1 THEN a[1]
    ELSE a[1] \o ", " \o JoinComma(Tail(a))

\* lines 48-51: data.author || data.byline || '', an array joined
AuthorOf(data) ==
    LET author == Or(Or(data.author, data.byline), JsStr(""))
    IN  IF author.t = "array" THEN JoinComma(author.a) ELSE author.s

\* lines 53-63: the record parseArticleContent returns
ParsedFromData(data, url) ==
    [title |-> Or(data.title, JsStr("")).s,
     content |-> Or(data.content, JsHtml(<<>>)).h,
     textContent |-> Or(data.textContent, JsHtml(<<>>)).h,
     excerpt |-> Or(data.excerpt, JsHtml(<<>>)).h,
     byline |-> AuthorOf(data),
     siteName |-> Or(data.siteName, JsStr("")).s,
     url |-> Or(data.url, JsStr(url)).s,
     image |-> Or(data.image, JsStr("")).s,
     format |-> "html"]

ApiErrorMessage(r) == "API Error: " \o r.status \o " " \o r.statusText

ReadErrorStatusMessage_Fixed(json) == "Failed to fetch URL"

\* the message or'ed with the default when the payload says status 'error' (line 39)
ReadErrorStatusMessage(json) == Or(json.message, JsStr("Failed to fetch URL")).s

\* lines 26-63: the body of the try block; Reject is a throw inside it
ParseTry(url, r) ==
    IF r.net = "fail" THEN Reject(r.netMsg)
    ELSE IF r.body = Unparseable
        THEN (IF ~ResponseOk(r) THEN Reject(ApiErrorMessage(r))
              ELSE Reject("Invalid response format from API"))
    ELSE IF r.body.t \in {"null", "undefined"} THEN Reject(TypeErrorMessage)
    ELSE IF r.body.status = JsStr("error") THEN Reject(ReadErrorStatusMessage(r.body))
    ELSE IF ~ResponseOk(r) THEN Reject(ApiErrorMessage(r))
    ELSE Resolve(ParsedFromData(Or(r.body.data, r.body), url))

\* lines 64-66: catch (error) { throw new Error(error.message || "...") }
ParseCatch(o) ==
    IF o.ok THEN o ELSE Reject(MessageOr(o.message, "Failed to parse article content"))

\* parseArticleContent(url) when the backend answers r
parseArticleContent(url, r) ==
    IF url = "" THEN Reject("Invalid URL provided")
    ELSE ParseCatch(ParseTry(url, r))

ParseFetches_Always(url) == 1

\* number of fetch() calls parseArticleContent(url) makes
ParseFetches(url) == IF url = "" THEN 0 ELSE 1

----------------------------------------------------------------------------
(* Platform fallback backend: GET <protocol>//<host>/wp-json/wp/v2/posts   *)

\* a post: content.rendered, title.rendered, excerpt.rendered and the two
\* embedded resources (_embedded['wp:featuredmedia'][0], _embedded['author'][0])
Post(content, title, excerpt, media, author) ==
    [t |-> "object", contentRendered |-> content, titleRendered |-> title,
     excerptRendered |-> excerpt, featuredmedia |-> media, author |-> author]

Media(sourceUrl) == [t |-> "object", source_url |-> sourceUrl]
Author(name) == [t |-> "object", name |-> name]

\* lines 105-108
FeaturedImage(post) ==
    IF Truthy(post.featuredmedia) THEN Or(post.featuredmedia.source_url, JsStr("")).s ELSE ""

\* lines 111-114
WpAuthor(post) ==
    IF Truthy(post.author) THEN Or(post.author.name, JsStr("WordPress Author")).s
    ELSE "WordPress Author"

\* lines 96-126: the record built from the first post
WpRecord(post, url) ==
    LET content == CleanContent(Or(post.contentRendered, JsHtml(<<>>)).h)
    IN  [title |-> Or(post.titleRendered, JsStr("Untitled")).s,
         content |-> content,
         textContent |-> StripTags(content),
         excerpt |-> StripTags(Or(post.excerptRendered, JsHtml(<<>>)).h),
         byline |-> WpAuthor(post),
         siteName |-> ParseUrl(url).hostname,
         url |-> url,
         image |-> FeaturedImage(post),
         format |-> "html"]

\* lines 71-126: the body of the try block; Reject is a throw inside it
WpTry(url, r) ==
    IF ~ParseUrl(url).valid THEN Reject("Invalid URL")
    ELSE IF Slug(url) = "" THEN Reject("Could not extract slug for WordPress fallback")
    ELSE IF r.net = "fail" THEN Reject(r.netMsg)
    ELSE IF ~ResponseOk(r) THEN Reject("WordPress API returned error")
    ELSE IF r.body = Unparseable THEN Reject("Unexpected token < in JSON")
    ELSE IF r.body.t # "array" \/ r.body.a = <<>> THEN Reject("No post found via WordPress API")
    ELSE IF ~Truthy(r.body.a[1]) THEN Reject(TypeErrorMessage)
    ELSE Resolve(WpRecord(r.body.a[1], url))

WpCatch_Rethrow(o) == o

\* lines 128-131: catch (error) { console.warn(...); throw new Error("WordPress fallback failed") }
WpCatch(o) == IF o.ok THEN o ELSE Reject("WordPress fallback failed")

\* fetchWordpressArticle(url) when the platform backend answers r
fetchWordpressArticle(url, r) == WpCatch(WpTry(url, r))

\* number of fetch() calls fetchWordpressArticle(url) makes
WpFetches(url) == IF ParseUrl(url).valid /\ Slug(url) # "" THEN 1 ELSE 0

----------------------------------------------------------------------------
(* Sample backend answers *)

\* markup of exactly MinContentLength characters, and of one less
LongContent == <<Para(93)>>
ShortContent == <<Para(92)>>

\* the `message` a backend may put in a status-'error' payload
BackendMessages == {JsUndef, JsStr(""), JsStr("Article not found")}

ReadData(content) ==
    [ReadObj EXCEPT !.title = JsStr("Headline"), !.content = content,
                    !.textContent = JsHtml(<<Text(93)>>), !.author = JsArr(<<"A", "B">>)]

ReadContents == {JsUndef, JsHtml(<<>>), JsHtml(ShortContent), JsHtml(LongContent)}

\* the `author` and `byline` an extraction payload may have
AuthorValues ==
    {JsUndef, JsStr(""), JsStr("Jane"), JsArr(<<"A">>), JsArr(<<"A", "B">>),
     JsArr(<<"B", "A">>), JsArr(<<"A", "B", "C">>)}
BylineValues == {JsUndef, JsStr("Staff"), JsArr(<<"C", "D">>)}

\* what the extraction backend may answer
PrimaryResponses ==
    {NetFail("Failed to fetch"), NetFail("")}
    \cup {Http("500", "Internal Server Error", Unparseable), Http("200", "OK", Unparseable),
          Http("200", "OK", JsNull)}
    \cup {Http(st[1], st[2], [ReadObj EXCEPT !.status = JsStr("error"), !.message = m]) :
            st \in {<<"200", "OK">>, <<"404", "Not Found">>}, m \in BackendMessages}
    \cup {Http("500", "Internal Server Error", [ReadObj EXCEPT !.status = JsStr("success")])}
    \cup {Http("200", "OK", [ReadObj EXCEPT !.status = JsStr("success"), !.data = ReadData(c)]) :
            c \in ReadContents}
    \cup {Http("200", "OK", ReadData(c)) : c \in ReadContents}
    \cup {Http("200", "OK", [ReadData(JsHtml(LongContent)) EXCEPT !.author = a, !.byline = b]) :
            a \in AuthorValues, b \in BylineValues}

WpContents ==
    {JsUndef,
     JsHtml(<<Para(120), Iframe("double", "www.youtube.com", TRUE)>>),
     JsHtml(<<Para(20), Iframe("single", "www.youtube.com", TRUE)>>),
     JsHtml(<<Iframe("double", "www.youtube.com", FALSE), Para(20)>>),
     JsHtml(<<Iframe("double", "player.vimeo.com", TRUE), Iframe("double", "youtu.be", TRUE)>>)}

WpPosts ==
    {Post(c, JsStr("WP title"), JsHtml(<<Para(30)>>), Media(JsStr("https://blog.example/i.png")),
          Author(JsStr("Jane"))) : c \in WpContents}
    \cup {Post(JsHtml(<<Para(120)>>), JsUndef, JsUndef, JsUndef, JsUndef)}

\* what the platform backend may answer
WpResponses ==
    {NetFail("Failed to fetch"), Http("404", "Not Found", JsArr(<<>>)),
     Http("200", "OK", Unparseable), Http("200", "OK", JsArr(<<>>)),
     Http("200", "OK", [t |-> "object", code |-> "rest_no_route"]),
     Http("200", "OK", JsArr(<<JsNull>>))}
    \cup {Http("200", "OK", JsArr(<<p>>)) : p \in WpPosts}

\* no answer is read when no request is sent
NoResponse == [net |-> "none"]

PrimaryResponsesFor(url) == IF ParseFetches(url) = 0 THEN {NoResponse} ELSE PrimaryResponses
WpResponsesFor(url) == IF WpFetches(url) = 0 THEN {NoResponse} ELSE WpResponses

\* the answers the reader is run against: one of each kind of outcome
ReaderPrimaryResponses ==
    {NetFail("Failed to fetch"),
     Http("200", "OK", [ReadObj EXCEPT !.status = JsStr("error"), !.message = JsStr("Article not found")]),
     Http("200", "OK", ReadData(JsUndef)),
     Http("200", "OK", ReadData(JsHtml(ShortContent))),
     Http("200", "OK", ReadData(JsHtml(LongContent)))}

ReaderWpResponses ==
    {NetFail("Failed to fetch"), Http("200", "OK", JsArr(<<>>))}
    \cup {Http("200", "OK", JsArr(<<Post(c, JsStr("WP title"), JsHtml(<<Para(30)>>), JsUndef, JsUndef)>>)) :
            c \in {JsUndef, JsHtml(<<Para(120), Iframe("double", "www.youtube.com", TRUE)>>)}}

ReaderPrimaryResponsesFor(url) ==
    IF ParseFetches(url) = 0 THEN {NoResponse} ELSE ReaderPrimaryResponses
ReaderWpResponsesFor(url) ==
    IF WpFetches(url) = 0 THEN {NoResponse} ELSE ReaderWpResponses

----------------------------------------------------------------------------
(* ReaderModal (the version with the WordPress fallback)                   *)

MinContentLength == 100

ConsolidatedMessage_WpLeak == "WordPress fallback failed"

\* line 70
ConsolidatedMessage == "Could not extract content using standard parser or WordPress API."

\* a record supplied by a manual import (App.handleImportSubmit, manual mode)
ManualParsed ==
    [title |-> "Manual", content |-> <<Text(10)>>, textContent |-> <<Text(10)>>,
     excerpt |-> <<Text(10)>>, byline |-> "User Input", siteName |-> "Manual Source",
     url |-> "", image |-> "", format |-> "html"]

\* the props (article, initialParsedData) App.tsx may give the modal
ReaderProps ==
    {[article |-> [url |-> u], initialParsedData |-> Null] : u \in {UrlPost, UrlEmpty}}
    \cup {[article |-> [url |-> ""], initialParsedData |-> ManualParsed]}

TooShort_OnlyEmpty(data) == data.content = <<>>

TooShort_Always(data) == TRUE

TooShort_GrowsWithRuns(data) ==
    data.content = <<>> \/ HtmlLength(data.content) < MinContentLength * Len(inv)

\* line 54: !data.content || data.content.length < 100
TooShort(data) == data.content = <<>> \/ HtmlLength(data.content) < MinContentLength

\* a fetchContent invocation that has just called parseArticleContent(article.url)
NewInvocation(url) ==
    [url |-> url, alive |-> TRUE, pc |-> "primary",
     calls |-> <<[fn |-> "parseArticleContent", url |-> url]>>,
     primaryResponse |-> Null, primaryOut |-> Null, standardError |-> JsUndef,
     wpResponse |-> Null, wpOut |-> Null, finalError |-> JsUndef]

RunEffect_NoSkip(p) ==
    /\ article' = p.article
    /\ initialParsedData' = p.initialParsedData
    /\ error' = Null
    /\ parsedData' = Null
    /\ loading' = TRUE
    /\ loadingStep' = "Fetching content..."
    /\ inv' = Append(inv, NewInvocation(p.article.url))

\* lines 36-47 and 79: the effect run for props p
RunEffect(p) ==
    /\ article' = p.article
    /\ initialParsedData' = p.initialParsedData
    /\ error' = Null
    /\ IF p.initialParsedData # Null
       THEN /\ parsedData' = p.initialParsedData
            /\ loading' = FALSE
            /\ loadingStep' = "Fetching content..."
            /\ inv' = inv
       ELSE /\ parsedData' = Null
            /\ loading' = TRUE
            /\ loadingStep' = "Fetching content..."
            /\ inv' = Append(inv, NewInvocation(p.article.url))

\* the modal is rendered only while App's readingArticle is set (App.tsx 276)
Mounted == article # Null

StartsFetch(p) == p.initialParsedData = Null

\* App sets readingArticle while the modal is not rendered: a new ReaderModal
\* mounts (useState initial values, lines 15-18) and its effect runs
Open(p) ==
    /\ ~Mounted
    /\ StartsFetch(p) => Len(inv) < MaxOpens
    /\ RunEffect(p)
    /\ UNCHANGED <<call, appVars, studioVars>>

\* App replaces readingArticle / manualParsedData while the modal is rendered:
\* the effect runs again in the same instance (deps [article, initialParsedData])
Change(p) ==
    /\ Mounted
    /\ StartsFetch(p) => Len(inv) < MaxOpens
    /\ RunEffect(p)
    /\ UNCHANGED <<call, appVars, studioVars>>

\* onClose: readingArticle and manualParsedData become null, the modal unmounts;
\* promises of the unmounted instance still settle but their setState calls do nothing
Close ==
    /\ Mounted
    /\ article' = Null
    /\ initialParsedData' = Null
    /\ parsedData' = Null
    /\ loading' = TRUE
    /\ loadingStep' = "Initializing..."
    /\ error' = Null
    /\ inv' = [i \in DOMAIN inv |-> [inv[i] EXCEPT !.alive = FALSE]]
    /\ UNCHANGED <<call, appVars, studioVars>>

DeliverData_KeepsLoading(i, data) ==
    IF inv[i].alive
    THEN /\ parsedData' = data
         /\ UNCHANGED <<loading, error, loadingStep>>
    ELSE UNCHANGED <<parsedData, loading, error, loadingStep>>

\* lines 57-58 / 66-67: setParsedData(data); setLoading(false)
DeliverData(i, data) ==
    IF inv[i].alive
    THEN /\ parsedData' = data
         /\ loading' = FALSE
         /\ UNCHANGED <<error, loadingStep>>
    ELSE UNCHANGED <<parsedData, loading, error, loadingStep>>

DeliverError_Raw(i, message) ==
    IF inv[i].alive
    THEN /\ error' = inv[i].standardError
         /\ loading' = FALSE
         /\ UNCHANGED <<parsedData, loadingStep>>
    ELSE UNCHANGED <<parsedData, loading, error, loadingStep>>

\* lines 74-75: setError(finalError.message || "Failed to load content."); setLoading(false)
DeliverError(i, message) ==
    IF inv[i].alive
    THEN /\ error' = JsStr(MessageOr(message, "Failed to load content."))
         /\ loading' = FALSE
         /\ UNCHANGED <<parsedData, loadingStep>>
    ELSE UNCHANGED <<parsedData, loading, error, loadingStep>>

\* lines 59-65: the standard parser failed; announce it and call the fallback
StartFallback(i, r, out, message) ==
    /\ inv' = [inv EXCEPT ![i].pc = "fallback",
                          ![i].primaryResponse = r,
                          ![i].primaryOut = out,
                          ![i].standardError = JsStr(message),
                          ![i].calls = Append(@, [fn |-> "fetchWordpressArticle", url |-> inv[i].url])]
    /\ IF inv[i].alive
       THEN loadingStep' = "Standard parser failed. Trying WordPress API..."
       ELSE UNCHANGED loadingStep
    /\ UNCHANGED <<parsedData, loading, error>>

\* lines 53-61: await parseArticleContent(article.url) settles, the backend having answered r
PrimaryDone(i, r) ==
    /\ inv[i].pc = "primary"
    /\ LET out == parseArticleContent(inv[i].url, r)
       IN  IF out.ok /\ ~TooShort(out.value)
           THEN /\ inv' = [inv EXCEPT ![i].pc = "done", ![i].primaryResponse = r,
                                      ![i].primaryOut = out]
                /\ DeliverData(i, out.value)
           ELSE StartFallback(i, r, out,
                              IF out.ok THEN "Content too short or empty" ELSE out.message)
    /\ UNCHANGED <<article, initialParsedData, call, appVars, studioVars>>

\* lines 65-76: await fetchWordpressArticle(article.url) settles, the platform
\* backend having answered r; on failure the consolidated error is thrown and caught
FallbackDone(i, r) ==
    /\ inv[i].pc = "fallback"
    /\ LET out == fetchWordpressArticle(inv[i].url, r)
       IN  IF out.ok
           THEN /\ inv' = [inv EXCEPT ![i].pc = "done", ![i].wpResponse = r, ![i].wpOut = out]
                /\ DeliverData(i, out.value)
           ELSE /\ inv' = [inv EXCEPT ![i].pc = "done", ![i].wpResponse = r, ![i].wpOut = out,
                                      ![i].finalError = JsStr(ConsolidatedMessage)]
                /\ DeliverError(i, ConsolidatedMessage)
    /\ UNCHANGED <<article, initialParsedData, call, appVars, studioVars>>

ReaderIdle ==
    /\ article = Null
    /\ initialParsedData = Null
    /\ parsedData = Null
    /\ loading = TRUE
    /\ loadingStep = "Initializing..."
    /\ error = Null
    /\ inv = <<>>

NextReader ==
    \/ \E p \in ReaderProps : Open(p)
    \/ \E p \in ReaderProps : Change(p)
    \/ Close
    \/ \E i \in DOMAIN inv : \E r \in ReaderPrimaryResponsesFor(inv[i].url) : PrimaryDone(i, r)
    \/ \E i \in DOMAIN inv : \E r \in ReaderWpResponsesFor(inv[i].url) : FallbackDone(i, r)

----------------------------------------------------------------------------
(* No service call is in progress outside the reader *)

CallIdle == call = [pc |-> "idle"]

----------------------------------------------------------------------------
(* The reader's pipeline: claims                                           *)

CallsOf(i, fn) == SelectSeq(inv[i].calls, LAMBDA c : c.fn = fn)

PrimarySettled(i) == inv[i].primaryOut # Null
FallbackSettled(i) == inv[i].wpOut # Null

\* the primary resolved with content that is missing, empty or shorter than 100 characters
PrimarySoftFailed(i) ==
    /\ PrimarySettled(i)
    /\ inv[i].primaryOut.ok
    /\ HtmlLength(inv[i].primaryOut.value.content) < 100

PrimaryHardFailed(i) == PrimarySettled(i) /\ ~inv[i].primaryOut.ok

\* the step in which invocation i's await of the fallback settles
FallbackSettles(i) == i \in DOMAIN inv /\ inv[i].pc = "fallback" /\ inv'[i].pc = "done"

C1_CallsOk ==
    \A i \in DOMAIN inv :
        PrimarySoftFailed(i) =>
            /\ Len(CallsOf(i, "fetchWordpressArticle")) = 1
            /\ CallsOf(i, "fetchWordpressArticle")[1].url = inv[i].url

C1_Delivers ==
    \A i \in DOMAIN inv :
        (FallbackSettles(i) /\ PrimarySoftFailed(i) /\ inv[i].alive /\ inv'[i].wpOut.ok) =>
            /\ parsedData' = inv'[i].wpOut.value
            /\ loading' = FALSE

\* C1: whenever the primary extractor resolves with content that is missing, empty
\* or shorter than 100 characters, the fallback extractor is invoked exactly once,
\* for the same URL, and when it succeeds its record becomes the reader's parsedData.
C1_FallbackOnSoftFail == [](C1_CallsOk) /\ [][C1_Delivers]_vars

C1_Witness ==
    \E i \in DOMAIN inv :
        /\ PrimarySoftFailed(i)
        /\ inv[i].primaryOut.value.content # <<>>
        /\ inv[i].pc = "done"
        /\ inv[i].wpOut.ok
        /\ parsedData = inv[i].wpOut.value
        /\ parsedData # inv[i].primaryOut.value

BothFailed(i) ==
    /\ inv[i].pc = "done"
    /\ PrimarySoftFailed(i) \/ PrimaryHardFailed(i)
    /\ FallbackSettled(i)
    /\ ~inv[i].wpOut.ok

C2_OneError ==
    \A i \in DOMAIN inv :
        BothFailed(i) =>
            /\ inv[i].finalError.t = "string"
            /\ inv[i].finalError.s # inv[i].standardError.s
            /\ PrimaryHardFailed(i) => inv[i].finalError.s # inv[i].primaryOut.message
            /\ inv[i].finalError.s # inv[i].wpOut.message

C2_NoRecord ==
    \A i \in DOMAIN inv :
        (FallbackSettles(i) /\ inv[i].alive /\ ~inv'[i].wpOut.ok) =>
            /\ parsedData' = parsedData
            /\ (Len(inv) = 1 /\ initialParsedData = Null) => parsedData' = Null
            /\ error' = inv'[i].finalError
            /\ loading' = FALSE

\* C2: when both the primary and the fallback extractor fail, the pipeline ends with
\* one error whose message differs from the primary's and from the fallback's, and
\* delivers no article record: parsedData is left as it was (null), loading becomes false.
C2_ConsolidatedFailure == [](C2_OneError) /\ [][C2_NoRecord]_vars

C2_Witness ==
    \E i \in DOMAIN inv :
        /\ BothFailed(i)
        /\ PrimaryHardFailed(i)
        /\ inv[i].alive
        /\ parsedData = Null
        /\ error = inv[i].finalError
        /\ loading = FALSE

\* C3: in every invocation the primary extractor is attempted first and exactly once;
\* the fallback is attempted at most once, only after the primary hard- or soft-failed,
\* never when the primary returned at least 100 characters; nothing is retried.
C3_StrategyOrder ==
    \A i \in DOMAIN inv :
        /\ inv[i].calls[1].fn = "parseArticleContent"
        /\ Len(CallsOf(i, "parseArticleContent")) = 1
        /\ Len(CallsOf(i, "fetchWordpressArticle")) <= 1
        /\ Len(inv[i].calls) = Len(CallsOf(i, "parseArticleContent"))
                                + Len(CallsOf(i, "fetchWordpressArticle"))
        /\ \A k \in DOMAIN inv[i].calls : inv[i].calls[k].url = inv[i].url
        /\ Len(CallsOf(i, "fetchWordpressArticle")) = 1 =>
                PrimarySoftFailed(i) \/ PrimaryHardFailed(i)
        /\ (PrimarySettled(i) /\ inv[i].primaryOut.ok
                /\ HtmlLength(inv[i].primaryOut.value.content) >= 100) =>
                CallsOf(i, "fetchWordpressArticle") = <<>>

C3_Witness ==
    /\ \E i \in DOMAIN inv :
        inv[i].pc = "done" /\ PrimaryHardFailed(i) /\ Len(inv[i].calls) = 2
    /\ \E i \in DOMAIN inv :
        inv[i].pc = "done" /\ inv[i].primaryOut.ok /\ Len(inv[i].calls) = 1

\* C10 as stated: the error text the reader presents when extraction fails is the
\* extraction backend's raw error message, verbatim.
C10_Original ==
    error # Null =>
        \E i \in DOMAIN inv : PrimaryHardFailed(i) /\ error.s = inv[i].primaryOut.message

\* C10 (amended): the error text the reader presents when extraction fails is the
\* fixed consolidated message, never the extraction backend's raw error message.
C10_ConsolidatedText ==
    error # Null =>
        /\ error = JsStr("Could not extract content using standard parser or WordPress API.")
        /\ \A i \in DOMAIN inv : PrimaryHardFailed(i) => error.s # inv[i].primaryOut.message

C10_Witness ==
    /\ error # Null
    /\ loading = FALSE
    /\ \E i \in DOMAIN inv :
        /\ BothFailed(i)
        /\ PrimaryHardFailed(i)
        /\ inv[i].alive
        /\ inv[i].primaryOut.message = "Article not found"

\* an invocation of the mounted modal whose article has since been replaced
Superseded(i) == inv[i].alive /\ (i < Len(inv) \/ initialParsedData # Null)

\* C12: when the reader's article changes while an extraction for the previous
\* article is in flight, the completion of the earlier extraction (success or failure,
\* primary or fallback) does not change the parsedData, error or loading shown for the
\* new article.
C12_StaleExtractionIgnored ==
    [][\A i \in DOMAIN inv :
        (Superseded(i) /\ inv'[i].pc # inv[i].pc) => UNCHANGED <<parsedData, error, loading>>]_vars

\* how a finished invocation ended: with the record it delivered or with its error
Outcome(i) ==
    IF FallbackSettled(i)
    THEN (IF inv[i].wpOut.ok THEN Resolve(inv[i].wpOut.value) ELSE Reject(inv[i].finalError.s))
    ELSE Resolve(inv[i].primaryOut.value)

\* two finished invocations for the same URL whose backends gave the same answers
SameInputs(i, j) ==
    /\ inv[i].pc = "done" /\ inv[j].pc = "done"
    /\ inv[i].url = inv[j].url
    /\ inv[i].primaryResponse = inv[j].primaryResponse
    /\ inv[i].wpResponse = inv[j].wpResponse

C20_NoEmptyContent ==
    \A i \in DOMAIN inv :
        (inv[i].pc = "done" /\ Outcome(i).ok) =>
            /\ Outcome(i).value.content # <<>>
            /\ HtmlLength(Outcome(i).value.content) > 0

----------------------------------------------------------------------------


\* the step in which the modal's effect runs for props that carry pre-parsed data:
\* the props are set and no await settles
OpensPreParsed ==
    /\ initialParsedData' # Null
    /\ \A i \in DOMAIN inv : i \in DOMAIN inv' /\ inv'[i].pc = inv[i].pc

\* C23: when the reader is opened with pre-parsed article data (manual or partner
\* import), no extraction strategy is invoked and no network call is made: the reader
\* goes straight to loading=false with parsedData equal to the supplied record and
\* error=null.
C23_PreParsedSkipsFetch ==
    [][OpensPreParsed =>
        /\ inv' = inv
        /\ parsedData' = initialParsedData'
        /\ loading' = FALSE
        /\ error' = Null]_vars

C23_Witness ==
    /\ article = [url |-> ""]
    /\ initialParsedData # Null
    /\ parsedData = initialParsedData
    /\ parsedData.siteName = "Manual Source"
    /\ loading = FALSE
    /\ error = Null
    /\ inv = <<>>

\* an invocation for the empty URL
EmptyUrl(i) == inv[i].url = ""

\* C21: no remote fetch is ever issued for an empty URL: the primary extractor fails
\* before any network call, the fallback extractor fails before any network call, and
\* the pipeline ends in the consolidated failure.
C21_NoFetchForEmptyUrl ==
    \A i \in DOMAIN inv :
        EmptyUrl(i) =>
            /\ PrimarySettled(i) =>
                /\ inv[i].primaryResponse = [net |-> "none"]
                /\ inv[i].primaryOut = Reject("Invalid URL provided")
                /\ Len(CallsOf(i, "fetchWordpressArticle")) = 1
            /\ FallbackSettled(i) =>
                /\ inv[i].wpResponse = [net |-> "none"]
                /\ inv[i].wpOut = Reject("WordPress fallback failed")
            /\ inv[i].pc = "done" =>
                /\ BothFailed(i)
                /\ inv[i].finalError =
                       JsStr("Could not extract content using standard parser or WordPress API.")

C21_Witness ==
    \E i \in DOMAIN inv :
        /\ EmptyUrl(i)
        /\ inv[i].pc = "done"
        /\ inv[i].alive
        /\ i = Len(inv)
        /\ loading = FALSE
        /\ parsedData = Null
        /\ error = JsStr("Could not extract content using standard parser or WordPress API.")

----------------------------------------------------------------------------
\* C28, first part: loading=true implies parsedData=null and error=null.
C28_LoadingMeansEmpty == loading => (parsedData = Null /\ error = Null)

\* C28: in every reachable state of the reader with the fallback pipeline, over any
\* sequence of article opens and extraction completions: loading=true implies
\* parsedData=null and error=null, and parsedData and error are never both non-null.
C28_ReaderStateInvariant ==
    /\ loading => (parsedData = Null /\ error = Null)
    /\ ~(parsedData # Null /\ error # Null)

----------------------------------------------------------------------------
(* Generation backend: rewriteArticleContent                               *)

TranslateEndpoint == "https://api.gnews.media/translate"
RewriteEndpoint == "https://api.gnews.media/rewrite"

\* lines 137-138: default parameter values apply when the argument is undefined
DefaultArg(arg, default) == IF arg = JsUndef THEN default ELSE arg

Endpoint_NotIndonesian(targetLocale) ==
    IF targetLocale # JsStr("id-ID") THEN TranslateEndpoint ELSE RewriteEndpoint

\* lines 142-144
Endpoint(targetLocale) ==
    IF targetLocale = JsStr("en-US") THEN TranslateEndpoint ELSE RewriteEndpoint

\* lines 147-157: the one fetch of a call
RewriteRequest(title, content, targetLocale, searchGrounding) ==
    [method |-> "POST",
     url |-> Endpoint(DefaultArg(targetLocale, JsStr("id-ID"))),
     body |-> [title |-> title, content |-> content,
               search_grounding |-> DefaultArg(searchGrounding, JsBool(FALSE))]]

\* a generation payload with no field set
GenObj ==
    [t |-> "object", status |-> JsUndef, message |-> JsUndef, data |-> JsUndef,
     new_title |-> JsUndef, translated_title |-> JsUndef, title |-> JsUndef,
     original_title |-> JsUndef, alternative_titles |-> JsUndef,
     rewritten_content |-> JsUndef, translated_content |-> JsUndef, content |-> JsUndef,
     meta_description |-> JsUndef]

RewrittenTitle_NoOriginal(data) ==
    Or(Or(data.new_title, data.translated_title), data.title)

\* line 179
RewrittenTitle(data) ==
    Or(Or(Or(data.new_title, data.translated_title), data.title), data.original_title)

RewrittenContent_NoTranslated(data) ==
    Or(Or(data.rewritten_content, data.content), JsStr(""))

\* line 184
RewrittenContent(data) ==
    Or(Or(Or(data.rewritten_content, data.translated_content), data.content), JsStr(""))

\* lines 177-187
RewrittenFromData(data) ==
    [title |-> RewrittenTitle(data),
     alternativeTitles |-> Or(data.alternative_titles, JsArr(<<>>)),
     content |-> RewrittenContent(data),
     metaDescription |-> Or(data.meta_description, JsStr(""))]

\* line 168
RewriteErrorStatusMessage(json) == Or(json.message, JsStr("Processing failed")).s

RewriteTry_NoOkCheck(r) ==
    IF r.net = "fail" THEN Reject(r.netMsg)
    ELSE IF r.body = Unparseable THEN Reject("Invalid response format")
    ELSE IF r.body.t \in {"null", "undefined"} THEN Reject(TypeErrorMessage)
    ELSE IF r.body.status = JsStr("error") THEN Reject(RewriteErrorStatusMessage(r.body))
    ELSE Resolve(RewrittenFromData(Or(r.body.data, r.body)))

\* lines 147-187: the body of the try block; Reject is a throw inside it
RewriteTry(r) ==
    IF r.net = "fail" THEN Reject(r.netMsg)
    ELSE IF r.body = Unparseable
        THEN (IF ~ResponseOk(r) THEN Reject("API Error: " \o r.status)
              ELSE Reject("Invalid response format"))
    ELSE IF r.body.t \in {"null", "undefined"} THEN Reject(TypeErrorMessage)
    ELSE IF r.body.status = JsStr("error") THEN Reject(RewriteErrorStatusMessage(r.body))
    ELSE IF ~ResponseOk(r) THEN Reject("API Error: " \o r.status)
    ELSE Resolve(RewrittenFromData(Or(r.body.data, r.body)))

\* lines 188-190
RewriteCatch(o) == IF o.ok THEN o ELSE Reject(MessageOr(o.message, "Service unavailable"))

\* rewriteArticleContent(...) when the generation backend answers r
rewriteArticleContent(r) == RewriteCatch(RewriteTry(r))

\* the values a title or body field of a payload may have; v is the text when it has one
FieldValues(v) == {JsUndef, JsStr(""), JsStr(v)}

GenTitleData ==
    {[GenObj EXCEPT !.new_title = a, !.translated_title = b, !.title = c, !.original_title = d,
                    !.rewritten_content = JsStr("rewritten body")] :
        a \in FieldValues("new title"), b \in FieldValues("translated title"),
        c \in FieldValues("title"), d \in FieldValues("original title") \cup {JsNull}}

GenContentData ==
    {[GenObj EXCEPT !.rewritten_content = a, !.translated_content = b, !.content = c,
                    !.new_title = JsStr("new title"),
                    !.alternative_titles = JsArr(<<"alt 1", "alt 2">>),
                    !.meta_description = JsStr("meta")] :
        a \in FieldValues("rewritten body"), b \in FieldValues("translated body"),
        c \in FieldValues("body")}

GenData == GenTitleData \cup GenContentData

\* what the generation backend may answer
GenResponses ==
    {NetFail("Failed to fetch"), NetFail("")}
    \cup {Http("500", "Internal Server Error", Unparseable), Http("200", "OK", Unparseable),
          Http("200", "OK", JsNull)}
    \cup {Http(st[1], st[2], [GenObj EXCEPT !.status = JsStr("error"), !.message = m]) :
            st \in {<<"200", "OK">>, <<"429", "Too Many Requests">>}, m \in BackendMessages}
    \cup {Http("500", "Internal Server Error", [d EXCEPT !.status = JsStr("success")]) :
            d \in GenContentData}
    \cup {Http("200", "OK", d) : d \in GenData}
    \cup {Http("200", "OK", [GenObj EXCEPT !.status = JsStr("success"), !.data = d,
                                          !.new_title = JsStr("outer title"),
                                          !.rewritten_content = JsStr("outer body")]) :
            d \in GenData}

\* the target language tags a caller may pass (JsUndef: the argument is omitted)
TargetLocales == {JsUndef, JsStr("en-US"), JsStr("id-ID"), JsStr("en-us"), JsStr("en-GB"), JsStr("")}

SearchGroundings == {JsUndef, JsBool(TRUE)}

----------------------------------------------------------------------------
(* Listing backends: fetchTopics, fetchNewsArticles, fetchDiscoverArticles *)

\* lines 4-20
MOCK_TOPICS ==
    [t |-> "object", status |-> JsUndef, message |-> JsUndef,
     main_topics |-> JsArr(<<"indonesia", "world", "business", "technology", "entertainment",
                             "sports", "science", "health">>),
     sub_topics |-> JsArr(<<"automotive", "football", "cryptocurrency">>)]

\* lines 24-81; a timestamp is kept in days (the source has milliseconds, each a
\* whole number of days: 1764460800000 ms = 20422 days)
MOCK_ARTICLE_LIST ==
    <<
     [date |-> JsStr("2025-11-30"),
      image |-> "https://encrypted-tbn0.gstatic.com/images?q=tbn:ANd9GcSg4zbBt7PHOWu8sNWOgo451K0o853_z8Qdc1vsCJfhXWUneA",
      source |-> "Kompas",
      timestamp |-> JsNum(20422),
      title |-> "Begini Cara Menghubungkan Perangkat dengan WiFi KAI Tanpa Password",
      url |-> "https://www.kompas.com/tren/read/2025/12/03/050000965/begini-cara-menghubungkan-perangkat-dengan-wifi-kai-tanpa-password"],
     [date |-> JsStr("2025-12-02"),
      image |-> "https://encrypted-tbn0.gstatic.com/images?q=tbn:ANd9GcQ2YyWRzgTaYXXlO4V7dMuii8pYZRQ50BFNScLUTcmeZujCIw",
      source |-> "Cnnindonesia",
      timestamp |-> JsNum(20424),
      title |-> "BMKG Kasih Peringatan, Waspada Cuaca Ekstrem Akhir Tahun",
      url |-> "https://www.cnnindonesia.com/teknologi/20251202165647-641-1301965/bmkg-kasih-peringatan-waspada-cuaca-ekstrem-akhir-tahun"],
     [date |-> JsStr("2025-12-02"),
      image |-> "https://encrypted-tbn0.gstatic.com/images?q=tbn:ANd9GcQZUOJQR7wfud0019CMsj6wMVIxI6VA0as0QnNdz8KCZif47A",
      source |-> "Tirto",
      timestamp |-> JsNum(20424),
      title |-> "Hasil Reuni 212 pada 2 Desember 2025 & Daftar Pejabat yang Hadir",
      url |-> "https://tirto.id/hasil-reuni-212-pada-2-desember-2025-daftar-pejabat-yang-hadir-hm4d"],
     [date |-> JsStr("2025-12-01"),
      image |-> "https://encrypted-tbn0.gstatic.com/images?q=tbn:ANd9GcTiuIaPfl4411o_mOkyJGyBMdE7nNw-hSqJZ_FdkZz_-pMXng",
      source |-> "Liputan6",
      timestamp |-> JsNum(20423),
      title |-> "7 Tips Mengusir Anakan Ular yang Bersembunyi di Tumpukan Batu Kebun, Aman dan Efektif",
      url |-> "https://www.liputan6.com/hot/read/6222161/7-tips-mengusir-anakan-ular-yang-bersembunyi-di-tumpukan-batu-kebun-aman-dan-efektif"],
     [date |-> JsStr("2025-11-27"),
      image |-> "https://encrypted-tbn0.gstatic.com/images?q=tbn:ANd9GcQtHiLA1r5B7WfbZjmnwvP9oAYVJ5vJSRPZqHbgXnPYP21yJw",
      source |-> "Market",
      timestamp |-> JsNum(20419),
      title |-> "Nilai Tukar Rupiah terhadap Dolar AS Hari Ini, Rabu 3 Desember 2025",
      url |-> "https://market.bisnis.com/read/20251203/93/1933732/nilai-tukar-rupiah-terhadap-dolar-as-hari-ini-rabu-3-desember-2025"],
     [date |-> JsStr("2025-12-03"),
      image |-> "https://encrypted-tbn0.gstatic.com/images?q=tbn:ANd9GcSRiapqK39OSKuKvg2K86fsOwNT-PHvUFMimIo133GPphVRwA",
      source |-> "Tribunnews",
      timestamp |-> JsNum(20425),
      title |-> "Prajurit TNI Bawa Bantuan Lewati Rintangan untuk Warga Terisolir, Foto 6 #2029761",
      url |-> "https://www.tribunnews.com/images/bencana/view/2029761/prajurit-tni-bawa-bantuan-lewati-medan-berat-untuk-warga-terisolir"],
     [date |-> JsStr("2025-12-04"),
      image |-> "https://encrypted-tbn0.gstatic.com/images?q=tbn:ANd9GcT8pqwBjg6hHDqD4Tx0Wcb9OOFAfOq_QzBWDqqBTDQ1cV4cWg",
      source |-> "Suara",
      timestamp |-> JsNum(20426),
      title |-> "Resmi Dibuka, Pusat Belanja Baru Ini Hadirkan Promo Menarik untuk Pengunjung",
      url |-> "https://www.suara.com/lifestyle/2025/12/01/130119/resmi-dibuka-pusat-belanja-baru-ini-hadirkan-promo-menarik-untuk-pengunjung"]
    >>

\* lines 23-85
MOCK_ARTICLES ==
    [t |-> "object", status |-> JsStr("success"), message |-> JsUndef,
     articles |-> JsArr(MOCK_ARTICLE_LIST), source |-> JsStr("Google Discover API"),
     total |-> JsNum(7), main_topics |-> JsUndef, sub_topics |-> JsUndef]

\* a listing payload with no field set
ListObj ==
    [t |-> "object", status |-> JsUndef, message |-> JsUndef, articles |-> JsUndef,
     source |-> JsUndef, total |-> JsUndef, main_topics |-> JsUndef, sub_topics |-> JsUndef]

\* locales Intl.DateTimeFormat accepts
ValidLocales == {"id-ID", "en-US"}

\* lines 116-133: the text Intl.DateTimeFormat(locale, {timeZone: 'Asia/Jakarta', ...})
\* gives for the timestamp; a RangeError (invalid locale tag, invalid date) is caught
\* and new Date(timestamp).toLocaleDateString() returned instead
formatDateWIB(timestamp, locale) ==
    IF locale \in ValidLocales /\ timestamp.t = "number"
    THEN [t |-> "string", format |-> "Intl.DateTimeFormat Asia/Jakarta", locale |-> locale,
          timestamp |-> timestamp]
    ELSE [t |-> "string", format |-> "toLocaleDateString", timestamp |-> timestamp]

transformData_FirstTimestamp(data, locale) ==
    LET articles == Or(data.articles, JsArr(<<>>))
    IN  IF articles.t # "array" THEN Reject("(data.articles || []).map is not a function")
        ELSE Resolve([data EXCEPT !.articles =
                JsArr([k \in DOMAIN articles.a |->
                        [articles.a[k] EXCEPT !.date = formatDateWIB(articles.a[1].timestamp, locale)]])])

\* lines 143-150 (and 185-191): Reject stands for the TypeError of calling .map on a
\* value that is not an array
transformData(data, locale) ==
    LET articles == Or(data.articles, JsArr(<<>>))
    IN  IF articles.t # "array" THEN Reject("(data.articles || []).map is not a function")
        ELSE Resolve([data EXCEPT !.articles =
                JsArr([k \in DOMAIN articles.a |->
                        [articles.a[k] EXCEPT !.date = formatDateWIB(articles.a[k].timestamp, locale)]])])

\* lines 93-100: the message thrown for a response that is not ok
TopicsNotOkMessage(r) ==
    IF r.body # Unparseable /\ r.body.t = "object" /\ r.body.status = JsStr("error")
            /\ Truthy(r.body.message)
    THEN r.body.message.s
    ELSE "Failed to fetch topics"

\* lines 89-108: the body of the try block
TopicsTry(r) ==
    IF r.net = "fail" THEN Reject(r.netMsg)
    ELSE IF ~ResponseOk(r) THEN Reject(TopicsNotOkMessage(r))
    ELSE IF r.body = Unparseable THEN Reject("Unexpected token < in JSON")
    ELSE IF r.body.t \in {"null", "undefined"} THEN Reject(TypeErrorMessage)
    ELSE IF r.body.status = JsStr("error")
        THEN Reject(Or(r.body.message, JsStr("Failed to fetch topics")).s)
    ELSE Resolve(r.body)

\* a console.warn call
Warning(text, message) == [text |-> text, error |-> message]

TopicsCatch_Rethrow(o) == [out |-> o, warned |-> <<>>]

\* lines 109-112
TopicsCatch(o) ==
    IF o.ok THEN [out |-> o, warned |-> <<>>]
    ELSE [out |-> Resolve(mockTopics),
          warned |-> <<Warning("Using mock topics due to API error", o.message)>>]

\* fetchTopics() when the backend answers r: its outcome and what it logged
fetchTopics(r) == TopicsCatch(TopicsTry(r))

\* lines 155-162 (and 196-203)
ArticlesNotOkMessage(r) ==
    "API Error: " \o
        (IF r.body # Unparseable /\ r.body.t = "object" /\ r.body.status = JsStr("error")
                /\ Truthy(r.body.message)
         THEN r.body.message.s
         ELSE r.statusText)

\* lines 153-170 (and 194-209): the body of the try block
ArticlesTry(locale, r) ==
    IF r.net = "fail" THEN Reject(r.netMsg)
    ELSE IF ~ResponseOk(r) THEN Reject(ArticlesNotOkMessage(r))
    ELSE IF r.body = Unparseable THEN Reject("Unexpected token < in JSON")
    ELSE IF r.body.t \in {"null", "undefined"} THEN Reject(TypeErrorMessage)
    ELSE IF r.body.status = JsStr("error") THEN Reject(Or(r.body.message, JsStr("API Error")).s)
    ELSE transformData(r.body, locale)

\* lines 171-177 (and 210-215): warn, then resolve with the transformed mock data
ArticlesCatch(o, locale, text) ==
    IF o.ok THEN [out |-> o, warned |-> <<>>]
    ELSE [out |-> transformData(mockArticles, locale), warned |-> <<Warning(text, o.message)>>]

\* String.prototype.toLowerCase on the topic names used
ToLowerCase(topic) ==
    CASE topic = "Business" -> "business"
      [] topic = "World" -> "world"
      [] OTHER -> topic

\* lines 137 and 181
Country(locale) == IF locale = "id-ID" THEN "ID" ELSE "US"

\* line 140
NewsUrl(topic, locale) ==
    "https://api.gnews.media/api/news/" \o ToLowerCase(topic) \o "?limit=50&country="
        \o Country(locale) \o "&locale=" \o locale

\* line 183
DiscoverUrl(locale) ==
    "https://api.gnews.media/api/discover?country=" \o Country(locale) \o "&locale=" \o locale
        \o "&limit=50"

\* fetchNewsArticles(topic, locale) when the backend answers r
fetchNewsArticles(topic, locale, r) ==
    ArticlesCatch(ArticlesTry(locale, r), locale,
                  "Failed to fetch " \o topic \o " news, using mock data.")

\* fetchDiscoverArticles(locale) when the backend answers r
fetchDiscoverArticles(locale, r) ==
    ArticlesCatch(ArticlesTry(locale, r), locale, "Failed to fetch discover news, using mock data.")

BackendArticles ==
    <<[date |-> JsStr("2026-01-02"), image |-> "", source |-> "Antara", timestamp |-> JsNum(20455),
       title |-> "Backend article 1", url |-> "https://blog.example/n/p/"],
      [date |-> JsStr("2026-01-01"), image |-> "", source |-> "Tempo", timestamp |-> JsUndef,
       title |-> "Backend article 2", url |-> "https://site.example"]>>

\* what a listing backend may answer
ListResponses ==
    {NetFail("Failed to fetch"),
     Http("500", "Internal Server Error", Unparseable),
     Http("200", "OK", Unparseable),
     Http("200", "OK", JsNull),
     Http("200", "OK", [ListObj EXCEPT !.status = JsStr("success"),
                                       !.main_topics = JsArr(<<"world", "sports">>),
                                       !.sub_topics = JsArr(<<"football">>)]),
     Http("200", "OK", [ListObj EXCEPT !.status = JsStr("success"),
                                       !.articles = JsArr(BackendArticles)]),
     Http("200", "OK", [ListObj EXCEPT !.status = JsStr("success")]),
     Http("200", "OK", [ListObj EXCEPT !.articles = JsStr("none")])}
    \cup {Http(st[1], st[2], [ListObj EXCEPT !.status = JsStr("error"), !.message = m]) :
            st \in {<<"200", "OK">>, <<"500", "Internal Server Error">>}, m \in BackendMessages}

Topics == {"Business", "world"}
Locales == {"id-ID", "en-US"}

----------------------------------------------------------------------------
(* One call of a service function, from outside the reader: the call is    *)
(* made (its request, if any, is sent), the backend answers, the promise   *)
(* settles, and the caller takes the result.                               *)

\* encodeURIComponent on the URLs used
EncodeURIComponent(u) ==
    CASE u = UrlPost -> "https%3A%2F%2Fblog.example%2Fn%2Fp%2F"
      [] u = UrlRoot -> "https%3A%2F%2Fsite.example"
      [] u = UrlBad -> "not%20a%20url"
      [] u = UrlPlain -> "http%3A%2F%2Fnews.example%2Fa%2Fb"
      [] u = UrlDoubleSlash -> "https%3A%2F%2Fblog.example%2Fn%2Fp%2F%2F"
      [] OTHER -> u

Get(url) == [method |-> "GET", url |-> url]

\* line 23
ReadApiUrl(u) == "https://api.gnews.media/read?url=" \o EncodeURIComponent(u)

Pending(fn, args, requests) ==
    [pc |-> "pending", fn |-> fn, args |-> args, requests |-> requests]

Settled(r, out, warned) ==
    [pc |-> "settled", fn |-> call.fn, args |-> call.args, requests |-> call.requests,
     response |-> r, out |-> out, warned |-> warned]

CallParse(u) ==
    /\ call.pc = "idle"
    /\ call' = Pending("parseArticleContent", [url |-> u],
                       IF ParseFetches(u) = 1 THEN <<Get(ReadApiUrl(u))>> ELSE <<>>)
    /\ UNCHANGED <<readerVars, appVars, studioVars>>

ParseSettles(r) ==
    /\ call.pc = "pending" /\ call.fn = "parseArticleContent"
    /\ r \in PrimaryResponsesFor(call.args.url)
    /\ call' = Settled(r, parseArticleContent(call.args.url, r), <<>>)
    /\ UNCHANGED <<readerVars, appVars, studioVars>>

CallWordpress(u) ==
    /\ call.pc = "idle"
    /\ call' = Pending("fetchWordpressArticle", [url |-> u],
                       IF WpFetches(u) = 1 THEN <<Get(WpApiUrl(u))>> ELSE <<>>)
    /\ UNCHANGED <<readerVars, appVars, studioVars>>

WordpressSettles(r) ==
    /\ call.pc = "pending" /\ call.fn = "fetchWordpressArticle"
    /\ r \in WpResponsesFor(call.args.url)
    /\ call' = Settled(r, fetchWordpressArticle(call.args.url, r),
                       IF fetchWordpressArticle(call.args.url, r).ok THEN <<>>
                       ELSE <<Warning("WordPress fallback failed:", WpTry(call.args.url, r).message)>>)
    /\ UNCHANGED <<readerVars, appVars, studioVars>>

CallRewrite(title, content, targetLocale, searchGrounding) ==
    /\ call.pc = "idle"
    /\ call' = Pending("rewriteArticleContent",
                       [title |-> title, content |-> content, targetLocale |-> targetLocale,
                        searchGrounding |-> searchGrounding],
                       <<RewriteRequest(title, content, targetLocale, searchGrounding)>>)
    /\ UNCHANGED <<readerVars, appVars, studioVars>>

RewriteSettles(r) ==
    /\ call.pc = "pending" /\ call.fn = "rewriteArticleContent"
    /\ call' = Settled(r, rewriteArticleContent(r), <<>>)
    /\ UNCHANGED <<readerVars, appVars, studioVars>>

CallTopics ==
    /\ call.pc = "idle"
    /\ call' = Pending("fetchTopics", [none |-> TRUE], <<Get("https://api.gnews.media/api/topics")>>)
    /\ UNCHANGED <<readerVars, appVars, studioVars>>

TopicsSettles(r) ==
    /\ call.pc = "pending" /\ call.fn = "fetchTopics"
    /\ call' = Settled(r, fetchTopics(r).out, fetchTopics(r).warned)
    /\ UNCHANGED <<readerVars, appVars, studioVars>>

CallNews(topic, locale) ==
    /\ call.pc = "idle"
    /\ call' = Pending("fetchNewsArticles", [topic |-> topic, locale |-> locale],
                       <<Get(NewsUrl(topic, locale))>>)
    /\ UNCHANGED <<readerVars, appVars, studioVars>>

NewsSettles(r) ==
    /\ call.pc = "pending" /\ call.fn = "fetchNewsArticles"
    /\ call' = Settled(r, fetchNewsArticles(call.args.topic, call.args.locale, r).out,
                       fetchNewsArticles(call.args.topic, call.args.locale, r).warned)
    /\ UNCHANGED <<readerVars, appVars, studioVars>>

CallDiscover(locale) ==
    /\ call.pc = "idle"
    /\ call' = Pending("fetchDiscoverArticles", [locale |-> locale], <<Get(DiscoverUrl(locale))>>)
    /\ UNCHANGED <<readerVars, appVars, studioVars>>

DiscoverSettles(r) ==
    /\ call.pc = "pending" /\ call.fn = "fetchDiscoverArticles"
    /\ call' = Settled(r, fetchDiscoverArticles(call.args.locale, r).out,
                       fetchDiscoverArticles(call.args.locale, r).warned)
    /\ UNCHANGED <<readerVars, appVars, studioVars>>

\* the caller has the result; the next call can be made
Return ==
    /\ call.pc = "settled"
    /\ call' = [pc |-> "idle"]
    /\ UNCHANGED <<readerVars, appVars, studioVars>>

NextCalls ==
    \/ \E u \in Urls : CallParse(u)
    \/ \E r \in PrimaryResponses \cup {NoResponse} : ParseSettles(r)
    \/ \E u \in Urls : CallWordpress(u)
    \/ \E r \in WpResponses \cup {NoResponse} : WordpressSettles(r)
    \/ \E l \in TargetLocales, g \in SearchGroundings :
            CallRewrite("Headline", "Body text", l, g)
    \/ \E r \in GenResponses : RewriteSettles(r)
    \/ CallTopics
    \/ \E r \in ListResponses : TopicsSettles(r)
    \/ \E tp \in Topics, l \in Locales : CallNews(tp, l)
    \/ \E r \in ListResponses : NewsSettles(r)
    \/ \E l \in Locales : CallDiscover(l)
    \/ \E r \in ListResponses : DiscoverSettles(r)
    \/ Return

----------------------------------------------------------------------------
(* App: the session, the topics and the article listing (App.tsx)          *)

\* initTopics and loadNews invocations per behaviour
MaxLoads == 3

\* the session supabase hands to the auth listener
Session == [t |-> "object", user |-> "editor"]

\* the topic buttons the user clicks on
AppTopics == {"Trending", "world"}

\* articles a listing backend returns (timestamps in days)
AppBackendArticles ==
    <<[date |-> JsStr("2026-01-01"), image |-> "", source |-> "Tempo", timestamp |-> JsNum(20454),
       title |-> "Backend article 1", url |-> "https://site.example"],
      [date |-> JsStr("2026-01-02"), image |-> "", source |-> "Antara", timestamp |-> JsNum(20455),
       title |-> "Backend article 2", url |-> "https://blog.example/n/p/"]>>

\* what the topics backend answers to initTopics
AppTopicsResponses ==
    {NetFail("Failed to fetch"),
     Http("200", "OK", [ListObj EXCEPT !.status = JsStr("success"),
                                       !.main_topics = JsArr(<<"world", "sports">>),
                                       !.sub_topics = JsArr(<<"football">>)])}

\* what a listing backend answers to loadNews
AppArticlesResponses ==
    {NetFail("Failed to fetch"),
     Http("200", "OK", [ListObj EXCEPT !.status = JsStr("success")]),
     Http("200", "OK", [ListObj EXCEPT !.status = JsStr("success"),
                                       !.articles = JsArr(AppBackendArticles)])}

\* lines 15-24: useState initial values
AppInitial ==
    [session |-> Null, articles |-> <<>>, topics |-> <<>>, subTopics |-> <<>>,
     selectedTopic |-> "Trending", selectedLocale |-> "id-ID", loading |-> TRUE,
     searchTerm |-> ""]

\* an initTopics invocation awaiting fetchTopics() (lines 88-90)
NewInitTopics ==
    [fn |-> "initTopics", topic |-> "", locale |-> "", pc |-> "pending", shown |-> Null]

\* a loadNews invocation awaiting its fetch (lines 102-111)
NewLoadNews(topic, locale) ==
    [fn |-> "loadNews", topic |-> topic, locale |-> locale, pc |-> "pending", shown |-> Null]

\* lines 102-104: if (!topic || !session) return
LoadNewsRuns(a, topic) == topic # "" /\ a.session # Null

\* lines 123-125: the effect that calls loadNews, run after a render with state a;
\* loadNews sets loading and awaits its fetch
ListingEffect(a) ==
    IF a.selectedTopic # "" /\ a.session # Null /\ LoadNewsRuns(a, a.selectedTopic)
    THEN /\ app' = [a EXCEPT !.loading = TRUE]
         /\ loads' = Append(loads, NewLoadNews(a.selectedTopic, a.selectedLocale))
    ELSE /\ app' = a
         /\ loads' = loads

\* lines 69-79, event SIGNED_IN: setSession(session); the session having changed,
\* the effects of lines 84-100 and 123-125 run
SignedIn ==
    /\ app.session = Null
    /\ Len(loads) + 2 <= MaxLoads
    /\ LET a == [app EXCEPT !.session = Session]
       IN  /\ app' = [a EXCEPT !.loading = TRUE]
           /\ loads' = loads \o <<NewInitTopics, NewLoadNews(a.selectedTopic, a.selectedLocale)>>
    /\ UNCHANGED <<mockTopics, mockArticles, imp, readerVars, call, studioVars>>

\* lines 69-72 and 238-241, event SIGNED_OUT: setSession(null); setArticles([])
SignedOut ==
    /\ app.session # Null
    /\ app' = [app EXCEPT !.session = Null, !.articles = <<>>]
    /\ UNCHANGED <<loads, mockTopics, mockArticles, imp, readerVars, call, studioVars>>

\* Array.prototype.includes on a state array
Shows(list, x) == \E k \in DOMAIN list : list[k] = x

\* lines 127-130: handleTopicClick(topic), from a button of lines 528-562
handleTopicClick(topic) ==
    /\ app.session # Null
    /\ Shows(app.topics, topic) \/ Shows(app.subTopics, topic)
    /\ LET a == [app EXCEPT !.selectedTopic = topic, !.searchTerm = ""]
       IN  IF topic # app.selectedTopic
           THEN Len(loads) < MaxLoads /\ ListingEffect(a)
           ELSE app' = a /\ loads' = loads
    /\ UNCHANGED <<mockTopics, mockArticles, imp, readerVars, call, studioVars>>

\* lines 137 and 501: setSelectedLocale(locale) with another locale
SelectLocale(locale) ==
    /\ app.session # Null
    /\ locale # app.selectedLocale
    /\ Len(loads) < MaxLoads
    /\ ListingEffect([app EXCEPT !.selectedLocale = locale])
    /\ UNCHANGED <<mockTopics, mockArticles, imp, readerVars, call, studioVars>>

\* lines 598-616: "Try Refreshing", shown when loading is false and no article is listed
TryRefreshing ==
    /\ app.session # Null
    /\ ~app.loading
    /\ app.articles = <<>>
    /\ Len(loads) < MaxLoads
    /\ LoadNewsRuns(app, app.selectedTopic)
    /\ app' = [app EXCEPT !.loading = TRUE]
    /\ loads' = Append(loads, NewLoadNews(app.selectedTopic, app.selectedLocale))
    /\ UNCHANGED <<mockTopics, mockArticles, imp, readerVars, call, studioVars>>

\* lines 90-97: await fetchTopics() settles, the backend having answered r
InitTopicsSettles(k, r) ==
    /\ loads[k].fn = "initTopics"
    /\ loads[k].pc = "pending"
    /\ LET data == fetchTopics(r).out
       IN  /\ app' = IF data.ok
                     THEN [app EXCEPT !.topics = <<"Trending">> \o Or(data.value.main_topics, JsArr(<<>>)).a,
                                      !.subTopics = Or(data.value.sub_topics, JsArr(<<>>)).a]
                     ELSE [app EXCEPT !.topics = <<"Trending">>]
           /\ loads' = [loads EXCEPT ![k].pc = "done"]
    /\ UNCHANGED <<mockTopics, mockArticles, imp, readerVars, call, studioVars>>

RECURSIVE InsertByTimestamp(_, _)
\* x placed before the first element whose timestamp is not greater than x's
InsertByTimestamp(x, s) ==
    IF s = <<>> THEN <<x>>
    ELSE IF Head(s).timestamp.n <= x.timestamp.n THEN <<x>> \o s
    ELSE <<Head(s)>> \o InsertByTimestamp(x, Tail(s))

RECURSIVE SortByTimestampDesc(_)
\* line 113: sort((a, b) => b.timestamp - a.timestamp), a stable sort
SortByTimestampDesc(a) ==
    IF a = <<>> THEN <<>> ELSE InsertByTimestamp(Head(a), SortByTimestampDesc(Tail(a)))

TransformedArrayRef_SameArray(ref) == ref

\* part_000 lines 144-148: the array transformData returns is the one Array.prototype.map
\* creates, not the array `ref` it is called on
TransformedArrayRef(ref) == "new array"

\* part_000 lines 170 and 175: the array object in data.articles of the listing result
ArticlesArrayRef(fellBack) ==
    IF fellBack THEN TransformedArrayRef("MOCK_ARTICLES.articles")
    ELSE TransformedArrayRef("response.articles")

\* line 113: Array.prototype.sort sorts the array `ref` in place
SortInPlace(ref, sorted) ==
    IF ref = "MOCK_ARTICLES.articles" THEN [mockArticles EXCEPT !.articles = JsArr(sorted)]
    ELSE mockArticles

\* lines 105-120: the await of loadNews settles, the backend having answered r
LoadNewsSettles(k, r) ==
    /\ loads[k].fn = "loadNews"
    /\ loads[k].pc = "pending"
    /\ LET res == IF loads[k].topic = "Trending"
                  THEN fetchDiscoverArticles(loads[k].locale, r)
                  ELSE fetchNewsArticles(loads[k].topic, loads[k].locale, r)
           sorted == IF res.out.ok
                     THEN SortByTimestampDesc(Or(res.out.value.articles, JsArr(<<>>)).a)
                     ELSE <<>>
       IN  /\ mockArticles' = IF res.out.ok
                              THEN SortInPlace(ArticlesArrayRef(res.warned # <<>>), sorted)
                              ELSE mockArticles
           /\ app' = [app EXCEPT !.articles = sorted, !.loading = FALSE]
           /\ loads' = [loads EXCEPT ![k].pc = "done", ![k].shown = sorted]
    /\ UNCHANGED <<mockTopics, imp, readerVars, call, studioVars>>

\* handleImportSubmit invocations per behaviour
MaxImports == 1

\* lines 25-36: useState initial values; submits and alerts record the
\* handleImportSubmit invocations and the alert() calls made so far
ImportInitial ==
    [readingArticle |-> Null, showUrlInput |-> FALSE, importMode |-> "url", inputUrl |-> "",
     manualTitle |-> "", manualContent |-> "", importLocale |-> "id-ID",
     manualParsedData |-> Null, isProcessing |-> FALSE, submits |-> <<>>, alerts |-> <<>>]

\* what the user types into the form; every text is shorter than 100 characters
InputUrls == {"", UrlPost, UrlBad}
ManualTitles == {"", "My title"}
ManualContents == {"", "My content"}

\* the texts the partner backend returns as content_text
DetikText == "First line\n \nSecond line"

\* String.prototype.split('\n') on the texts used
SplitLines(text) ==
    CASE text = DetikText -> <<"First line", " ", "Second line">>
      [] text = "" -> <<"">>
      [] OTHER -> <<text>>

\* String.prototype.trim on the lines used
Trim(line) == IF line = " " THEN "" ELSE line

RECURSIVE JoinParagraphs(_)
\* lines 155-156: .map(p => `<p>${p}</p>`).join('')
JoinParagraphs(lines) ==
    IF lines = <<>> THEN "" ELSE "<p>" \o Head(lines) \o "</p>" \o JoinParagraphs(Tail(lines))

\* lines 152-156: content_text as HTML paragraphs, blank lines dropped
FormattedContent(text) ==
    JoinParagraphs(SelectSeq(SplitLines(text), LAMBDA line : Trim(line) # ""))

\* a payload of the partner backend with no field set
DetikObj ==
    [t |-> "object", status |-> JsUndef, url |-> JsUndef, title |-> JsUndef,
     content_text |-> JsUndef, published_at |-> JsUndef, featured_image |-> JsUndef]

\* what the partner backend answers
DetikResponses ==
    {NetFail("Failed to fetch"),
     Http("502", "Bad Gateway", Unparseable),
     Http("200", "OK", [DetikObj EXCEPT !.status = JsStr("error")]),
     Http("200", "OK", [DetikObj EXCEPT !.status = JsStr("success"),
                                          !.title = JsStr("Partner title"),
                                          !.content_text = JsStr(DetikText)])}

\* line 143
DetikApiUrl(u) == "https://api.gnews.media/api/article?url=" \o EncodeURIComponent(u)

\* lines 158-167: the date of the article, of data.published_at or of the present
\* moment (new Date())
ArticleDate(data) == IF Truthy(data.published_at) THEN data.published_at ELSE JsStr("now")

\* data.featured_image?.url || ''
DetikImage(data) ==
    IF Truthy(data.featured_image) THEN Or(data.featured_image.url, JsStr("")).s ELSE ""

\* lines 160-167
DetikArticle(data, inputUrl) ==
    [url |-> Or(data.url, JsStr(inputUrl)).s, title |-> Or(data.title, JsStr("No Title")).s,
     source |-> "Detik/Partner", date |-> [toLocaleDateString |-> ArticleDate(data)],
     image |-> DetikImage(data), timestamp |-> [getTime |-> ArticleDate(data)]]

\* lines 169-179
DetikParsed(data, inputUrl) ==
    LET text == Or(data.content_text, JsStr("")).s
    IN  [title |-> Or(data.title, JsStr("No Title")).s, content |-> FormattedContent(text),
         textContent |-> text, excerpt |-> text \o "...", byline |-> "Detik API",
         siteName |-> "Detik Import", url |-> Or(data.url, JsStr(inputUrl)).s,
         image |-> DetikImage(data), format |-> "html"]

\* lines 187-194
UrlArticle(inputUrl) ==
    [url |-> inputUrl, title |-> "Loading External Source...",
     source |-> ParseUrl(inputUrl).hostname, date |-> [toLocaleDateString |-> JsStr("now")],
     image |-> "", timestamp |-> [getTime |-> JsStr("now")]]

\* lines 200-207
ManualArticle(title) ==
    [url |-> "", title |-> title, source |-> "Manual Input",
     date |-> [toLocaleDateString |-> JsStr("now")], image |-> "",
     timestamp |-> [getTime |-> JsStr("now")]]

\* lines 210-220
ManualParsedOf(title, content) ==
    [title |-> title, content |-> content, textContent |-> content, excerpt |-> content \o "...",
     byline |-> "User Input", siteName |-> "Manual Source", url |-> "", image |-> "",
     format |-> "html"]

\* lines 252-256: openImportModal(mode), from the buttons of lines 467-476
openImportModal(mode) ==
    /\ app.session # Null
    /\ ~imp.showUrlInput
    /\ imp.readingArticle = Null
    /\ imp' = [imp EXCEPT !.importLocale = app.selectedLocale, !.importMode = mode,
                          !.showUrlInput = TRUE]
    /\ UNCHANGED <<app, loads, mockTopics, mockArticles, readerVars, call, studioVars>>

\* lines 306-323: the tabs, rendered unless the mode is 'detik'
setImportMode(mode) ==
    /\ imp.showUrlInput
    /\ imp.importMode # "detik"
    /\ mode # imp.importMode
    /\ imp' = [imp EXCEPT !.importMode = mode]
    /\ UNCHANGED <<app, loads, mockTopics, mockArticles, readerVars, call, studioVars>>

\* lines 334-339: the URL field, rendered in the modes 'url' and 'detik'
setInputUrl(u) ==
    /\ imp.showUrlInput
    /\ imp.importMode \in {"url", "detik"}
    /\ u # imp.inputUrl
    /\ imp' = [imp EXCEPT !.inputUrl = u]
    /\ UNCHANGED <<app, loads, mockTopics, mockArticles, readerVars, call, studioVars>>

\* lines 355-362: the title field, rendered in the mode 'manual'
setManualTitle(title) ==
    /\ imp.showUrlInput
    /\ imp.importMode = "manual"
    /\ title # imp.manualTitle
    /\ imp' = [imp EXCEPT !.manualTitle = title]
    /\ UNCHANGED <<app, loads, mockTopics, mockArticles, readerVars, call, studioVars>>

\* lines 365-372: the content field, rendered in the mode 'manual'
setManualContent(content) ==
    /\ imp.showUrlInput
    /\ imp.importMode = "manual"
    /\ content # imp.manualContent
    /\ imp' = [imp EXCEPT !.manualContent = content]
    /\ UNCHANGED <<app, loads, mockTopics, mockArticles, readerVars, call, studioVars>>

\* lines 378-414: the language buttons, rendered unless the mode is 'detik'
setImportLocale(locale) ==
    /\ imp.showUrlInput
    /\ imp.importMode # "detik"
    /\ locale # imp.importLocale
    /\ imp' = [imp EXCEPT !.importLocale = locale]
    /\ UNCHANGED <<app, loads, mockTopics, mockArticles, readerVars, call, studioVars>>

\* lines 296 and 428: setShowUrlInput(false)
CancelImport ==
    /\ imp.showUrlInput
    /\ imp' = [imp EXCEPT !.showUrlInput = FALSE]
    /\ UNCHANGED <<app, loads, mockTopics, mockArticles, readerVars, call, studioVars>>

\* lines 280-283: onClose of the reader
CloseReader ==
    /\ imp.readingArticle # Null
    /\ imp' = [imp EXCEPT !.readingArticle = Null, !.manualParsedData = Null]
    /\ UNCHANGED <<app, loads, mockTopics, mockArticles, readerVars, call, studioVars>>

\* a handleImportSubmit invocation: the values of its closure and where it stands
Submit(pc) == [mode |-> imp.importMode, inputUrl |-> imp.inputUrl, pc |-> pc]

\* lines 226-229: the import succeeded; the modal closes and the form is emptied
ImportSucceeds(s, tempArticle, parsed) ==
    [s EXCEPT !.manualParsedData = parsed, !.readingArticle = tempArticle,
              !.showUrlInput = FALSE, !.inputUrl = "", !.manualTitle = "",
              !.manualContent = "", !.isProcessing = FALSE]

\* lines 230-235: catch and finally
ImportFails(s) ==
    [s EXCEPT !.alerts = Append(@, "Failed to process import. Please check the URL or input."),
              !.isProcessing = FALSE]

\* line 137: setSelectedLocale(importLocale), before the try block
SetLocaleOnSubmit(a, locale) == [a EXCEPT !.selectedLocale = locale]

\* lines 132-236: the form is submitted; the modes 'url' and 'manual' run to the end,
\* the mode 'detik' awaits its fetch
handleImportSubmit ==
    /\ imp.showUrlInput
    /\ ~imp.isProcessing
    /\ Len(imp.submits) < MaxImports
    /\ LET a == SetLocaleOnSubmit(app, imp.importLocale)
       IN  IF a.selectedLocale # app.selectedLocale
           THEN Len(loads) < MaxLoads /\ ListingEffect(a)
           ELSE app' = a /\ loads' = loads
    /\ imp' =
        CASE imp.importMode = "detik" ->
                IF imp.inputUrl = ""
                THEN [ImportFails(imp) EXCEPT !.submits = Append(@, Submit("failed"))]
                ELSE [imp EXCEPT !.isProcessing = TRUE, !.submits = Append(@, Submit("pending"))]
          [] imp.importMode = "url" ->
                IF imp.inputUrl = "" \/ ~ParseUrl(imp.inputUrl).valid
                THEN [ImportFails(imp) EXCEPT !.submits = Append(@, Submit("failed"))]
                ELSE [ImportSucceeds(imp, UrlArticle(imp.inputUrl), Null)
                        EXCEPT !.submits = Append(@, Submit("done"))]
          [] OTHER ->
                IF imp.manualTitle = "" \/ imp.manualContent = ""
                THEN [ImportFails(imp) EXCEPT !.submits = Append(@, Submit("failed"))]
                ELSE [ImportSucceeds(imp, ManualArticle(imp.manualTitle),
                                     ManualParsedOf(imp.manualTitle, imp.manualContent))
                        EXCEPT !.submits = Append(@, Submit("done"))]
    /\ UNCHANGED <<mockTopics, mockArticles, readerVars, call, studioVars>>

\* lines 143-150: the checks on the partner backend's answer r
DetikTry(r) ==
    IF r.net = "fail" THEN Reject(r.netMsg)
    ELSE IF ~ResponseOk(r) THEN Reject("Failed to fetch Detik article")
    ELSE IF r.body = Unparseable THEN Reject("Unexpected token < in JSON")
    ELSE IF r.body.t \in {"null", "undefined"} THEN Reject(TypeErrorMessage)
    ELSE IF r.body.status = JsStr("error") THEN Reject("API returned error status")
    ELSE Resolve(r.body)

\* lines 143-235: the await of submit k settles, the partner backend having answered r
ImportSettles(k, r) ==
    /\ imp.submits[k].pc = "pending"
    /\ LET data == DetikTry(r)
           u == imp.submits[k].inputUrl
       IN  imp' = IF data.ok
                  THEN [ImportSucceeds(imp, DetikArticle(data.value, u), DetikParsed(data.value, u))
                            EXCEPT !.submits[k].pc = "done"]
                  ELSE [ImportFails(imp) EXCEPT !.submits[k].pc = "failed"]
    /\ UNCHANGED <<app, loads, mockTopics, mockArticles, readerVars, call, studioVars>>

AppIdle ==
    /\ app = AppInitial
    /\ loads = <<>>
    /\ mockTopics = MOCK_TOPICS
    /\ mockArticles = MOCK_ARTICLES
    /\ imp = ImportInitial

NextApp ==
    \/ SignedIn
    \/ SignedOut
    \/ \E topic \in AppTopics : handleTopicClick(topic)
    \/ \E locale \in Locales : SelectLocale(locale)
    \/ TryRefreshing
    \/ \E k \in DOMAIN loads : \E r \in AppTopicsResponses : InitTopicsSettles(k, r)
    \/ \E k \in DOMAIN loads : \E r \in AppArticlesResponses : LoadNewsSettles(k, r)

\* the import modal, its listing loads in flight
NextImport ==
    \/ SignedIn
    \/ \E mode \in {"url", "detik"} : openImportModal(mode)
    \/ \E mode \in {"url", "manual"} : setImportMode(mode)
    \/ \E u \in InputUrls : setInputUrl(u)
    \/ \E title \in ManualTitles : setManualTitle(title)
    \/ \E content \in ManualContents : setManualContent(content)
    \/ \E locale \in Locales : setImportLocale(locale)
    \/ CancelImport
    \/ handleImportSubmit
    \/ \E k \in DOMAIN imp.submits : \E r \in DetikResponses : ImportSettles(k, r)
    \/ CloseReader

----------------------------------------------------------------------------
(* ReaderModal with the rewrite panel (part_004)                           *)

\* extractions started, and handleRewrite invocations, per behaviour
MaxExtractions == 1
MaxRewrites == 2

\* the props (article, currentLocale, initialParsedData) App.tsx may give the modal
StudioProps ==
    {[article |-> [url |-> UrlPost], currentLocale |-> "id-ID", initialParsedData |-> Null],
     [article |-> [url |-> UrlRoot], currentLocale |-> "en-US", initialParsedData |-> Null],
     [article |-> [url |-> ""], currentLocale |-> "id-ID", initialParsedData |-> ManualParsed]}

\* the answers the modal's extraction is run against
StudioReadResponses ==
    {NetFail("Failed to fetch"),
     Http("200", "OK", [ReadData(JsHtml(LongContent)) EXCEPT !.textContent = JsUndef])}

\* the answers the modal's transformation is run against
StudioGenResponses ==
    {NetFail("Failed to fetch"),
     Http("200", "OK", [GenObj EXCEPT !.rewritten_content = JsStr("rewritten body")]),
     Http("200", "OK", [GenObj EXCEPT !.new_title = JsStr("new title"),
                                      !.rewritten_content = JsStr("rewritten body"),
                                      !.alternative_titles = JsArr(<<"alt 1", "alt 2">>),
                                      !.meta_description = JsStr("meta")])}

\* lines 97-114: useState initial values, for a modal mounted with props p
StudioInitial(p) ==
    [article |-> p.article, currentLocale |-> p.currentLocale,
     initialParsedData |-> p.initialParsedData,
     parsedData |-> Null, loading |-> TRUE, error |-> Null,
     isRewriting |-> FALSE, targetLocale |-> p.currentLocale, useSearchGrounding |-> FALSE,
     rewrittenContent |-> Null, rewrittenTitle |-> Null, rewrittenMetaDescription |-> Null,
     rewrittenAlternativeTitles |-> Null, activeTab |-> "source"]

\* lines 128-146: what the effect sets for props p, before it fetches
StudioReset(s, p) ==
    [s EXCEPT !.article = p.article, !.currentLocale = p.currentLocale,
              !.initialParsedData = p.initialParsedData,
              !.loading = (p.initialParsedData = Null), !.error = Null,
              !.parsedData = p.initialParsedData,
              !.rewrittenContent = Null, !.rewrittenTitle = Null,
              !.rewrittenMetaDescription = Null, !.rewrittenAlternativeTitles = Null,
              !.activeTab = "source", !.targetLocale = p.currentLocale,
              !.useSearchGrounding = FALSE]

\* line 148: parseArticleContent(article.url) called
NewExtraction(url) == [url |-> url, alive |-> TRUE, pc |-> "pending", out |-> Null]

\* lines 128-159: the effect run for props p, in the modal with state s
StudioEffect(s, p) ==
    /\ studio' = StudioReset(s, p)
    /\ extractions' = IF p.initialParsedData # Null THEN extractions
                      ELSE Append(extractions, NewExtraction(p.article.url))

StudioMounted == studio # Null

\* App sets readingArticle while the modal is not rendered: the modal mounts
StudioOpen(p) ==
    /\ ~StudioMounted
    /\ p.initialParsedData = Null => Len(extractions) < MaxExtractions
    /\ StudioEffect(StudioInitial(p), p)
    /\ UNCHANGED <<rewrites, alerts, readerVars, call, appVars>>

\* App replaces readingArticle, selectedLocale or manualParsedData while the modal is
\* rendered: the effect runs again (deps [article, currentLocale, initialParsedData])
StudioChange(p) ==
    /\ StudioMounted
    /\ p.article # studio.article \/ p.currentLocale # studio.currentLocale
            \/ p.initialParsedData # studio.initialParsedData
    /\ p.initialParsedData = Null => Len(extractions) < MaxExtractions
    /\ StudioEffect(studio, p)
    /\ UNCHANGED <<rewrites, alerts, readerVars, call, appVars>>

\* onClose: the modal unmounts; the promises of the unmounted instance still settle
\* but their setState calls do nothing
StudioClose ==
    /\ StudioMounted
    /\ studio' = Null
    /\ extractions' = [k \in DOMAIN extractions |-> [extractions[k] EXCEPT !.alive = FALSE]]
    /\ rewrites' = [k \in DOMAIN rewrites |-> [rewrites[k] EXCEPT !.alive = FALSE]]
    /\ UNCHANGED <<alerts, readerVars, call, appVars>>

\* lines 149-157: the then and catch callbacks of parseArticleContent(article.url)
AfterExtraction(s, out) ==
    IF out.ok THEN [s EXCEPT !.parsedData = out.value, !.loading = FALSE]
    ELSE [s EXCEPT !.error = JsStr(MessageOr(out.message, "Could not extract article content.")),
                   !.loading = FALSE]

\* parseArticleContent(article.url) settles, the backend having answered r
ExtractionSettles(k, r) ==
    /\ extractions[k].pc = "pending"
    /\ r \in (IF ParseFetches(extractions[k].url) = 0 THEN {NoResponse} ELSE StudioReadResponses)
    /\ LET out == parseArticleContent(extractions[k].url, r)
       IN  /\ extractions' = [extractions EXCEPT ![k].pc = "done", ![k].out = out]
           /\ studio' = IF extractions[k].alive THEN AfterExtraction(studio, out) ELSE studio
    /\ UNCHANGED <<rewrites, alerts, readerVars, call, appVars>>

\* line 169: parsedData.textContent || parsedData.content.replace(/<[^>]*>?/gm, '')
TextToRewrite(data) ==
    IF data.textContent # <<>> THEN data.textContent ELSE StripTags(data.content)

\* lines 161-175: handleRewrite up to its await (the button is disabled while loading,
\* rewriting or in error)
handleRewrite ==
    /\ StudioMounted
    /\ ~(studio.loading \/ studio.isRewriting \/ studio.error # Null)
    /\ studio.parsedData # Null
    /\ Len(rewrites) < MaxRewrites
    /\ studio' = [studio EXCEPT !.isRewriting = TRUE, !.activeTab = "output"]
    /\ rewrites' = Append(rewrites,
            [article |-> studio.article, alive |-> TRUE, pc |-> "pending", out |-> Null,
             request |-> RewriteRequest(studio.parsedData.title, TextToRewrite(studio.parsedData),
                                        JsStr(studio.targetLocale),
                                        JsBool(studio.useSearchGrounding))])
    /\ UNCHANGED <<extractions, alerts, readerVars, call, appVars>>

AfterRewrite_ClearsOnFailure(s, out) ==
    IF out.ok
    THEN [s EXCEPT !.rewrittenContent = out.value.content,
                   !.rewrittenTitle = Or(out.value.title, Null),
                   !.rewrittenMetaDescription = Or(out.value.metaDescription, Null),
                   !.rewrittenAlternativeTitles = Or(out.value.alternativeTitles, Null),
                   !.isRewriting = FALSE]
    ELSE [s EXCEPT !.rewrittenContent = Null, !.rewrittenTitle = Null, !.isRewriting = FALSE]

\* lines 176-187: the four setters after the await, and the finally block
AfterRewrite(s, out) ==
    IF out.ok
    THEN [s EXCEPT !.rewrittenContent = out.value.content,
                   !.rewrittenTitle = Or(out.value.title, Null),
                   !.rewrittenMetaDescription = Or(out.value.metaDescription, Null),
                   !.rewrittenAlternativeTitles = Or(out.value.alternativeTitles, Null),
                   !.isRewriting = FALSE]
    ELSE [s EXCEPT !.isRewriting = FALSE]

\* lines 170-187: the await of handleRewrite settles, the backend having answered r
StudioRewriteSettles(k, r) ==
    /\ rewrites[k].pc = "pending"
    /\ LET out == rewriteArticleContent(r)
       IN  /\ rewrites' = [rewrites EXCEPT ![k].pc = "done", ![k].out = out]
           /\ studio' = IF rewrites[k].alive THEN AfterRewrite(studio, out) ELSE studio
           /\ alerts' = IF out.ok THEN alerts
                        ELSE Append(alerts, "Failed to process the article. Please try again.")
    /\ UNCHANGED <<extractions, readerVars, call, appVars>>

StudioIdle ==
    /\ studio = Null
    /\ extractions = <<>>
    /\ rewrites = <<>>
    /\ alerts = <<>>

NextStudio ==
    \/ \E p \in StudioProps : StudioOpen(p)
    \/ \E p \in StudioProps : StudioChange(p)
    \/ StudioClose
    \/ \E k \in DOMAIN extractions : \E r \in StudioReadResponses \cup {NoResponse} :
            ExtractionSettles(k, r)
    \/ handleRewrite
    \/ \E k \in DOMAIN rewrites : \E r \in StudioGenResponses : StudioRewriteSettles(k, r)

----------------------------------------------------------------------------
(* Specifications *)

InitReader == ReaderIdle /\ CallIdle /\ AppIdle /\ StudioIdle

\* the reader alone
SpecReader == InitReader /\ [][NextReader]_vars

\* every network call eventually resolves or rejects: the await of each invocation
\* that is waiting for the primary or for the fallback extractor settles
ReaderFairness ==
    \A i \in 1..MaxOpens :
        /\ WF_vars(i \in DOMAIN inv /\ \E r \in ReaderPrimaryResponsesFor(inv[i].url) : PrimaryDone(i, r))
        /\ WF_vars(i \in DOMAIN inv /\ \E r \in ReaderWpResponsesFor(inv[i].url) : FallbackDone(i, r))

\* the reader's steps in behaviours with fewer than MaxOpens extractions
NextReaderFair ==
    \/ \E p \in ReaderProps : Open(p) /\ Len(inv') < MaxOpens
    \/ \E p \in ReaderProps : Change(p) /\ Len(inv') < MaxOpens
    \/ Close
    \/ \E i \in DOMAIN inv : \E r \in ReaderPrimaryResponsesFor(inv[i].url) : PrimaryDone(i, r)
    \/ \E i \in DOMAIN inv : \E r \in ReaderWpResponsesFor(inv[i].url) : FallbackDone(i, r)

\* the ReaderModal with the fallback pipeline, against backends that always answer
SpecReaderFair == InitReader /\ [][NextReaderFair]_vars /\ ReaderFairness

InitCalls == ReaderIdle /\ call = [pc |-> "idle"] /\ AppIdle /\ StudioIdle

\* the service functions, one call at a time
SpecCalls == InitCalls /\ [][NextCalls]_vars

InitApp == ReaderIdle /\ CallIdle /\ AppIdle /\ StudioIdle

\* App's session, topics and listing
SpecApp == InitApp /\ [][NextApp]_vars

InitStudio == ReaderIdle /\ CallIdle /\ AppIdle /\ StudioIdle

\* the ReaderModal with the rewrite panel
SpecStudio == InitStudio /\ [][NextStudio]_vars

InitImport == ReaderIdle /\ CallIdle /\ AppIdle /\ StudioIdle

\* App's import modal
SpecImport == InitImport /\ [][NextImport]_vars

----------------------------------------------------------------------------
(* The reader's pipeline: termination                                      *)

\* exactly one of parsedData and error is set
ExactlyOneSet == (parsedData # Null) # (error # Null)

\* every fetchContent invocation runs to its end
C29_PipelineEnds ==
    \A i \in 1..MaxOpens : (i \in DOMAIN inv) ~> (i \in DOMAIN inv /\ inv[i].pc = "done")

\* C29: assuming every network call eventually resolves or rejects, every opening of an
\* article in the reader eventually reaches loading=false with exactly one of parsedData
\* and error set, unless the reader is closed before that; the reader never stays in the
\* loading state forever, whichever combination of primary and fallback outcomes occurs.
C29_ReaderTerminates ==
    /\ C29_PipelineEnds
    /\ (Mounted /\ loading) ~> (~Mounted \/ (~loading /\ ExactlyOneSet))

\* an opening that went through both extractors has ended with loading=false
C29_Witness ==
    /\ Mounted
    /\ ~loading
    /\ ExactlyOneSet
    /\ inv # <<>>
    /\ inv[Len(inv)].alive
    /\ inv[Len(inv)].pc = "done"
    /\ FallbackSettled(Len(inv))
    /\ \A i \in DOMAIN inv : inv[i].pc = "done"

----------------------------------------------------------------------------
(* The service functions: claims                                           *)

SettledCall(fn) == call.pc = "settled" /\ call.fn = fn

\* a string that is present and not empty
NonEmpty(x) == x.t = "string" /\ x.s # ""

\* the answer is a parseable JSON object
JsonObject(r) == r.net = "ok" /\ r.body # Unparseable /\ r.body.t = "object"

\* the answer is an HTTP 2xx response
Http2xx(r) == r.net = "ok" /\ r.status \in {"200", "204"}

\* the answer's payload has status 'error'
ErrorStatus(r) == JsonObject(r) /\ r.body.status = JsStr("error")

\* the object the result fields are read from: the payload's data when it has one
PayloadData(r) == IF r.body.data.t = "object" THEN r.body.data ELSE r.body

\* C4: rewriteArticleContent posts to the translate endpoint if and only if the target
\* language tag is 'en-US', to the rewrite endpoint for every other tag and when the
\* tag is omitted, and issues exactly one POST per call.
C4_EndpointSelection ==
    (call.pc \in {"pending", "settled"} /\ call.fn = "rewriteArticleContent") =>
        /\ Len(call.requests) = 1
        /\ call.requests[1].method = "POST"
        /\ call.requests[1].url \in
                {"https://api.gnews.media/translate", "https://api.gnews.media/rewrite"}
        /\ call.requests[1].url = "https://api.gnews.media/translate"
                <=> call.args.targetLocale = JsStr("en-US")

C4_Witness ==
    /\ SettledCall("rewriteArticleContent")
    /\ call.args.targetLocale = JsStr("en-US")
    /\ call.requests = <<[method |-> "POST", url |-> "https://api.gnews.media/translate",
                          body |-> [title |-> "Headline", content |-> "Body text",
                                    search_grounding |-> JsBool(FALSE)]]>>

C5_Expected(d) ==
    IF NonEmpty(d.rewritten_content) THEN d.rewritten_content
    ELSE IF NonEmpty(d.translated_content) THEN d.translated_content
    ELSE IF NonEmpty(d.content) THEN d.content
    ELSE JsStr("")

\* C5: the result's content is the first non-empty value among rewritten_content,
\* translated_content and content, or the empty string when none is non-empty; when
\* only translated_content is populated the content equals it.
C5_ContentPreference ==
    (SettledCall("rewriteArticleContent") /\ call.out.ok) =>
        LET d == PayloadData(call.response)
        IN  /\ call.out.value.content = C5_Expected(d)
            /\ (/\ ~NonEmpty(d.rewritten_content) /\ ~NonEmpty(d.content)
                /\ NonEmpty(d.translated_content))
                    => call.out.value.content = d.translated_content

C5_Witness ==
    /\ SettledCall("rewriteArticleContent")
    /\ call.out.ok
    /\ PayloadData(call.response).rewritten_content = JsUndef
    /\ PayloadData(call.response).content = JsUndef
    /\ call.out.value.content = JsStr("translated body")

C6_Titles(d) == <<d.new_title, d.translated_title, d.title, d.original_title>>

\* C6: the result's title is the first non-empty value among new_title,
\* translated_title, title and original_title, and is absent (or empty) only when all
\* four are empty or missing.
C6_TitlePreference ==
    (SettledCall("rewriteArticleContent") /\ call.out.ok) =>
        LET ts == C6_Titles(PayloadData(call.response))
            title == call.out.value.title
        IN  /\ \A k \in 1..4 :
                    (NonEmpty(ts[k]) /\ \A j \in 1..(k - 1) : ~NonEmpty(ts[j])) => title = ts[k]
            /\ ~NonEmpty(title) => \A k \in 1..4 : ~NonEmpty(ts[k])

C6_Witness ==
    /\ SettledCall("rewriteArticleContent")
    /\ call.out.ok
    /\ PayloadData(call.response).new_title = JsStr("")
    /\ PayloadData(call.response).translated_title = JsUndef
    /\ PayloadData(call.response).title = JsUndef
    /\ call.out.value.title = JsStr("original title")

\* the cases in which C7 requires a rejection
C7_MustReject(r) ==
    \/ r.net = "fail"
    \/ r.net = "ok" /\ r.body = Unparseable
    \/ ErrorStatus(r)
    \/ r.net = "ok" /\ ~Http2xx(r)

\* C7: rewriteArticleContent rejects with one error and no result when the network
\* call fails, the body is not parseable JSON, the payload has status 'error' or the
\* HTTP status is not 2xx; it resolves only for a 2xx response with a parseable payload
\* whose status is not 'error'.
C7_RejectsOnFailure ==
    SettledCall("rewriteArticleContent") =>
        /\ C7_MustReject(call.response) =>
                call.out.ok = FALSE /\ DOMAIN call.out = {"ok", "message"}
        /\ call.out.ok =>
                /\ Http2xx(call.response)
                /\ call.response.body # Unparseable
                /\ ~ErrorStatus(call.response)

C7_Witness ==
    /\ SettledCall("rewriteArticleContent")
    /\ call.response.net = "ok"
    /\ call.response.status = "500"
    /\ JsonObject(call.response)
    /\ call.response.body.status = JsStr("success")
    /\ ~call.out.ok

ListingFns == {"fetchTopics", "fetchNewsArticles", "fetchDiscoverArticles"}

\* C8: an HTTP 2xx response whose payload has status 'error' makes the call fail, and
\* the error raised (extraction, transformation) or logged (listing, which falls back)
\* carries the payload's message whenever the payload has one.
C8_ErrorStatusIsFailure ==
    (/\ call.pc = "settled"
     /\ call.fn \in {"parseArticleContent", "rewriteArticleContent"} \cup ListingFns
     /\ Http2xx(call.response)
     /\ ErrorStatus(call.response)) =>
        LET m == call.response.body.message
        IN  /\ call.fn \in {"parseArticleContent", "rewriteArticleContent"} =>
                /\ ~call.out.ok
                /\ NonEmpty(m) => call.out.message = m.s
            /\ call.fn \in ListingFns =>
                /\ Len(call.warned) = 1
                /\ NonEmpty(m) => call.warned[1].error = m.s
                /\ call.out.ok
                /\ call.out.value # call.response.body

C8_Witness ==
    /\ call.pc = "settled"
    /\ call.fn = "fetchDiscoverArticles"
    /\ Http2xx(call.response)
    /\ ErrorStatus(call.response)
    /\ call.warned = <<[text |-> "Failed to fetch discover news, using mock data.",
                        error |-> "Article not found"]>>

\* the cases in which C9 requires the fallback dataset
C9_Failed(r) ==
    \/ r.net = "fail"
    \/ r.net = "ok" /\ ~Http2xx(r)
    \/ r.net = "ok" /\ r.body = Unparseable
    \/ ErrorStatus(r)

\* the mock articles, each with its date reformatted from its own timestamp
C9_MockWithDates(locale) ==
    [k \in 1..7 |->
        [date |-> formatDateWIB(MOCK_ARTICLE_LIST[k].timestamp, locale),
         image |-> MOCK_ARTICLE_LIST[k].image,
         source |-> MOCK_ARTICLE_LIST[k].source,
         timestamp |-> MOCK_ARTICLE_LIST[k].timestamp,
         title |-> MOCK_ARTICLE_LIST[k].title,
         url |-> MOCK_ARTICLE_LIST[k].url]]

\* C9: the listing functions never reject; on a network error, a non-2xx status, an
\* unparseable body or a status-'error' payload they resolve with the fixed fallback
\* dataset (the mock topics, or the mock articles with reformatted dates), which holds
\* nothing of the backend's answer.
C9_ListingFallsBack ==
    (call.pc = "settled" /\ call.fn \in ListingFns) =>
        /\ call.out.ok
        /\ C9_Failed(call.response) =>
            IF call.fn = "fetchTopics"
            THEN call.out.value = MOCK_TOPICS
            ELSE /\ call.out.value.articles = JsArr(C9_MockWithDates(call.args.locale))
                 /\ call.out.value.status = JsStr("success")
                 /\ call.out.value.message = JsUndef
                 /\ call.out.value.source = JsStr("Google Discover API")
                 /\ call.out.value.total = JsNum(7)

C9_Witness ==
    /\ SettledCall("fetchNewsArticles")
    /\ call.response.net = "ok"
    /\ call.response.status = "500"
    /\ ErrorStatus(call.response)
    /\ NonEmpty(call.response.body.message)
    /\ call.out.ok
    /\ call.out.value.articles.a[1].date =
            [t |-> "string", format |-> "Intl.DateTimeFormat Asia/Jakarta", locale |-> "en-US",
             timestamp |-> JsNum(20422)]

\* the payload a settled listing call transformed: the backend's, or the mock dataset
\* when the call fell back
C22_Source == IF call.warned = <<>> THEN call.response.body ELSE mockArticles

\* the items of a payload: (data.articles || [])
C22_Items(data) == IF Truthy(data.articles) THEN data.articles.a ELSE <<>>

\* a 2xx answer that carries a list of articles
C22_BackendList(r) ==
    /\ r.net = "ok" /\ ResponseOk(r)
    /\ r.body # Unparseable /\ r.body.t = "object"
    /\ r.body.status # JsStr("error")
    /\ r.body.articles.t = "array"

\* C22: the locale-aware listing functions return, for backend data and for fallback
\* data alike, a collection with the same number of items in the same order in which
\* each item differs from its source item only in its date field, which is computed
\* from that item's own timestamp and the supplied locale; date formatting never makes
\* the listing call throw (or fall back).
C22_OnlyDatesChange ==
    (call.pc = "settled" /\ call.fn \in {"fetchNewsArticles", "fetchDiscoverArticles"}) =>
        /\ call.out.ok
        /\ C22_BackendList(call.response) => call.warned = <<>>
        /\ LET src == C22_Items(C22_Source)
               res == call.out.value.articles.a
           IN  /\ Len(res) = Len(src)
               /\ \A k \in DOMAIN src :
                    /\ [res[k] EXCEPT !.date = src[k].date] = src[k]
                    /\ res[k].date = formatDateWIB(src[k].timestamp, call.args.locale)

\* backend data with a missing timestamp is returned with a fallback date, in order
C22_Witness ==
    /\ SettledCall("fetchNewsArticles")
    /\ call.args.locale = "en-US"
    /\ call.warned = <<>>
    /\ Len(call.out.value.articles.a) = 2
    /\ call.out.value.articles.a[1].title = "Backend article 1"
    /\ call.out.value.articles.a[1].date.format = "Intl.DateTimeFormat Asia/Jakarta"
    /\ call.out.value.articles.a[1].date.timestamp = JsNum(20455)
    /\ call.out.value.articles.a[2].title = "Backend article 2"
    /\ call.out.value.articles.a[2].date.format = "toLocaleDateString"

\* the mock dataset is returned with reformatted dates, in order
C22_WitnessFallback ==
    /\ SettledCall("fetchDiscoverArticles")
    /\ call.warned # <<>>
    /\ Len(call.out.value.articles.a) = 7
    /\ call.out.value.articles.a[7].source = "Suara"
    /\ call.out.value.articles.a[7].date # JsStr("2025-12-04")

\* the causes of failure C24 lists, for a call with URL u answered by r
C24_Cause(u, r) ==
    \/ u \in {"not a url", ""}
    \/ u = "https://site.example"
    \/ r.net = "fail"
    \/ r.net = "ok" /\ r.status \notin {"200", "204"}
    \/ r.net = "ok" /\ r.body # Unparseable /\ (r.body.t # "array" \/ r.body.a = <<>>)

\* C24: every failure inside the fallback extractor (unparseable URL, empty slug,
\* non-2xx platform response, response that is not a non-empty array, or a network
\* error) makes fetchWordpressArticle reject with one and the same error message,
\* independent of the underlying cause, and never return a partially built record.
C24_OneFallbackError ==
    (call.pc = "settled" /\ call.fn = "fetchWordpressArticle") =>
        /\ C24_Cause(call.args.url, call.response) => ~call.out.ok
        /\ ~call.out.ok => call.out = Reject("WordPress fallback failed")
        /\ call.out.ok =>
            DOMAIN call.out.value = {"title", "content", "textContent", "excerpt", "byline",
                                     "siteName", "url", "image", "format"}

\* a non-2xx answer whose own message is only logged
C24_Witness ==
    /\ SettledCall("fetchWordpressArticle")
    /\ call.response.net = "ok"
    /\ call.response.status = "404"
    /\ call.warned = <<[text |-> "WordPress fallback failed:",
                        error |-> "WordPress API returned error"]>>
    /\ call.out = Reject("WordPress fallback failed")

\* the request C25 expects fetchWordpressArticle to send for a URL; <<>> when the
\* last path segment left after removing one trailing slash is empty
C25_Requests(u) ==
    CASE u = "https://blog.example/n/p/" ->
            <<[method |-> "GET", url |-> "https://blog.example/wp-json/wp/v2/posts?slug=p&_embed"]>>
      [] u = "http://news.example/a/b" ->
            <<[method |-> "GET", url |-> "http://news.example/wp-json/wp/v2/posts?slug=b&_embed"]>>
      [] u = "https://blog.example/n/p//" -> <<>>
      [] u = "https://site.example" -> <<>>

\* C25: the fallback extractor derives the slug as the last path segment of the URL
\* after removing one trailing slash, queries the platform backend of the URL's own
\* protocol and hostname with that slug, and, when the slug is empty (URL with no path
\* segment), fails without issuing any network request.
C25_SlugRequest ==
    (/\ call.pc \in {"pending", "settled"}
     /\ call.fn = "fetchWordpressArticle"
     /\ call.args.url \notin {"not a url", ""}) =>
        /\ call.requests = C25_Requests(call.args.url)
        /\ (call.pc = "settled" /\ call.requests = <<>>) =>
            /\ call.response = [net |-> "none"]
            /\ ~call.out.ok

\* the slug of a URL that ends with one slash reaches the platform backend and the
\* post it answers with is returned
C25_Witness ==
    /\ SettledCall("fetchWordpressArticle")
    /\ call.args.url = "https://blog.example/n/p/"
    /\ call.requests[1].url = "https://blog.example/wp-json/wp/v2/posts?slug=p&_embed"
    /\ call.out.ok
    /\ call.out.value.siteName = "blog.example"

\* a URL without a path segment is refused before any request
C25_WitnessEmptySlug ==
    /\ SettledCall("fetchWordpressArticle")
    /\ call.args.url = "https://site.example"
    /\ call.requests = <<>>
    /\ ~call.out.ok

\* the authors in the order given, each after the first preceded by ', '
C13_Joined(a) ==
    CASE Len(a) = 1 -> a[1]
      [] Len(a) = 2 -> a[1] \o ", " \o a[2]
      [] Len(a) = 3 -> a[1] \o ", " \o a[2] \o ", " \o a[3]

\* C13: when the extraction backend returns a list of authors, parseArticleContent
\* sets byline to the authors joined in their original order with the separator ', ';
\* a one-element list gives that element.
C13_AuthorsJoined ==
    (/\ SettledCall("parseArticleContent")
     /\ call.out.ok
     /\ PayloadData(call.response).author.t = "array") =>
        LET a == PayloadData(call.response).author.a
        IN  /\ call.out.value.byline = C13_Joined(a)
            /\ Len(a) = 1 => call.out.value.byline = a[1]
            /\ a = <<"A", "B">> => call.out.value.byline = "A, B"

C13_Witness ==
    /\ SettledCall("parseArticleContent")
    /\ call.out.ok
    /\ PayloadData(call.response).author = JsArr(<<"B", "A">>)
    /\ PayloadData(call.response).byline = JsStr("Staff")
    /\ call.out.value.byline = "B, A"

\* a field that is missing or empty
C14_Absent(x) == x \in {JsUndef, JsNull, JsStr("")}

\* C14: when the backend supplies no author, each extraction strategy returns a byline
\* equal to its own non-empty default label, the primary extractor
\* (parseArticleContent) as well as the fallback extractor (fetchWordpressArticle).
C14_DefaultByline ==
    /\ (/\ SettledCall("parseArticleContent")
        /\ call.out.ok
        /\ C14_Absent(PayloadData(call.response).author)
        /\ C14_Absent(PayloadData(call.response).byline)) =>
            call.out.value.byline # ""
    /\ (/\ SettledCall("fetchWordpressArticle")
        /\ call.out.ok
        /\ C14_Absent(call.response.body.a[1].author)) =>
            /\ call.out.value.byline # ""
            /\ call.out.value.byline = "WordPress Author"

\* an iframe element whose src contains youtube.com
C15_YoutubeIframe(tok) == tok.kind = "iframe" /\ tok.host = "www.youtube.com"

\* C15: for every post the platform backend returns, the content of the record
\* fetchWordpressArticle returns contains no iframe element whose src contains
\* youtube.com, whatever the quoting, attribute order or line breaks of the markup.
C15_NoYoutubeIframe ==
    (SettledCall("fetchWordpressArticle") /\ call.out.ok) =>
        \A k \in DOMAIN call.out.value.content : ~C15_YoutubeIframe(call.out.value.content[k])

----------------------------------------------------------------------------
(* App: claims                                                             *)

LoadNewsCalls == {k \in DOMAIN loads : loads[k].fn = "loadNews"}

\* the loadNews invocation started last
LatestLoad == CHOOSE k \in LoadNewsCalls : \A j \in LoadNewsCalls : j <= k

AllLoadsDone == \A k \in DOMAIN loads : loads[k].pc = "done"

\* C11: a load superseded by a change of topic or locale is not applied: once all
\* loads have completed, the articles displayed are those returned for the most
\* recently selected topic and locale.
C11_LatestLoadWins ==
    (/\ app.session # Null
     /\ LoadNewsCalls # {}
     /\ AllLoadsDone) =>
        /\ loads[LatestLoad].topic = app.selectedTopic
        /\ loads[LatestLoad].locale = app.selectedLocale
        /\ app.articles = loads[LatestLoad].shown

\* C17: the fallback datasets MOCK_TOPICS and MOCK_ARTICLES are never modified: after
\* any sequence of listing calls and of App's processing of their results, the
\* in-place sort of loadNews included, both have their initial contents and order.
C17_MocksUnmodified ==
    /\ mockTopics = MOCK_TOPICS
    /\ mockArticles = MOCK_ARTICLES
    /\ mockArticles.articles.a = MOCK_ARTICLE_LIST

C17_Witness ==
    /\ app.topics = <<"Trending">> \o MOCK_TOPICS.main_topics.a
    /\ app.subTopics = MOCK_TOPICS.sub_topics.a
    /\ \E k \in LoadNewsCalls :
        /\ loads[k].pc = "done"
        /\ app.articles = loads[k].shown
        /\ Len(app.articles) = 7
        /\ app.articles[1].title = MOCK_ARTICLE_LIST[7].title
        /\ app.articles[7].title = MOCK_ARTICLE_LIST[5].title
        /\ app.articles[2].title = MOCK_ARTICLE_LIST[6].title

----------------------------------------------------------------------------
\* C26: content is cleared on logout: after a SIGNED_OUT auth event the articles list is
\* empty and stays empty for as long as the session is null, including when a listing
\* load that was in flight at sign-out completes afterwards.
C26_ClearedWhileSignedOut == app.session = Null => app.articles = <<>>

\* C26, second part: no new listing request is started while the session is null.
C26_NoLoadWhileSignedOut ==
    [][(app.session = Null /\ app'.session = Null) => Len(loads') = Len(loads)]_vars

----------------------------------------------------------------------------
\* some loadNews invocation is awaiting its fetch
LoadInFlight == \E k \in LoadNewsCalls : loads[k].pc = "pending"

\* C30: the listing view's loading flag is true whenever at least one loadNews request
\* is in flight, and becomes false only when no listing request remains in flight, also
\* when several loads overlap because the topic or locale was changed quickly.
C30_LoadingWhileInFlight == LoadInFlight => app.loading

----------------------------------------------------------------------------
(* App's import modal: claims                                              *)

\* the step in which a handleImportSubmit invocation ends in its catch block
ImportFailsStep == Len(imp'.alerts) = Len(imp.alerts) + 1

C27_FailedImportFrameButLocale ==
    [][ImportFailsStep =>
        /\ imp'.readingArticle = imp.readingArticle
        /\ imp'.manualParsedData = imp.manualParsedData
        /\ imp'.inputUrl = imp.inputUrl
        /\ imp'.manualTitle = imp.manualTitle
        /\ imp'.manualContent = imp.manualContent
        /\ imp'.importLocale = imp.importLocale
        /\ imp'.importMode = imp.importMode
        /\ imp'.showUrlInput = imp.showUrlInput
        /\ imp'.isProcessing = FALSE]_vars

----------------------------------------------------------------------------
(* ReaderModal with the rewrite panel: claims                              *)

\* the step in which the await of handleRewrite invocation k settles
RewriteSettlesStep(k) ==
    k \in DOMAIN rewrites /\ rewrites[k].pc = "pending" /\ rewrites'[k].pc = "done"

\* x || null
C18_OrNull(x) == IF x \in {JsUndef, JsNull, JsStr("")} THEN Null ELSE x

C18_Step(k) ==
    LET out == rewrites'[k].out
    IN  /\ studio'.isRewriting = FALSE
        /\ IF out.ok
           THEN /\ studio'.rewrittenContent = out.value.content
                /\ studio'.rewrittenTitle = C18_OrNull(out.value.title)
                /\ studio'.rewrittenMetaDescription = C18_OrNull(out.value.metaDescription)
                /\ studio'.rewrittenAlternativeTitles = C18_OrNull(out.value.alternativeTitles)
                /\ alerts' = alerts
           ELSE /\ studio'.rewrittenContent = studio.rewrittenContent
                /\ studio'.rewrittenTitle = studio.rewrittenTitle
                /\ studio'.rewrittenMetaDescription = studio.rewrittenMetaDescription
                /\ studio'.rewrittenAlternativeTitles = studio.rewrittenAlternativeTitles
                /\ Len(alerts') = Len(alerts) + 1

\* C18: a failed transformation shows no partial output: handleRewrite either replaces
\* all four output fields (content, title, meta description, alternative titles) from
\* one successful result, or on failure changes none of them, raises an alert, and
\* returns isRewriting to false.
C18_AllOrNothing ==
    [][\A k \in DOMAIN rewrites : (RewriteSettlesStep(k) /\ rewrites[k].alive) => C18_Step(k)]_vars

C18_Witness ==
    /\ Len(rewrites) = 2
    /\ rewrites[1].alive /\ rewrites[2].alive
    /\ rewrites[1].pc = "done" /\ rewrites[1].out.ok
    /\ rewrites[2].pc = "done" /\ ~rewrites[2].out.ok
    /\ rewrites[2].article = rewrites[1].article
    /\ alerts = <<"Failed to process the article. Please try again.">>
    /\ studio.isRewriting = FALSE
    /\ studio.rewrittenContent = JsStr("rewritten body")
    /\ studio.rewrittenTitle = JsStr("new title")
    /\ studio.rewrittenMetaDescription = JsStr("meta")
    /\ studio.rewrittenAlternativeTitles = JsArr(<<"alt 1", "alt 2">>)

\* some output field of the modal is set
HasOutput ==
    \/ studio.rewrittenContent # Null
    \/ studio.rewrittenTitle # Null
    \/ studio.rewrittenMetaDescription # Null
    \/ studio.rewrittenAlternativeTitles # Null

\* C19: transformation output exists only as the result of a transformation of the
\* article currently open: the output fields are non-null only if a handleRewrite
\* started for that same article has succeeded; a transformation started for a
\* previous article never populates the output of the next one.
C19_OutputOfOpenArticle ==
    (StudioMounted /\ HasOutput) =>
        \E k \in DOMAIN rewrites :
            /\ rewrites[k].alive
            /\ rewrites[k].pc = "done"
            /\ rewrites[k].out.ok
            /\ rewrites[k].article = studio.article

====
